---- MODULE Spec2Model ----
(***************************************************************************)
(* State-synchronisation core of z2m-homekit: the MQTT ingestion hook, the *)
(* device manager (state store, selective merge, snapshot) and the event   *)
(* bus with per-device deduplication of StateUpdate events.                *)
(*                                                                         *)
(* Conventions.  A Go pointer field is a sequence: <<>> is nil and <<v>>   *)
(* points to v.  A float64 is an integer count of 1/FloatUnit (0.0005), so *)
(* the 0.001 tolerance of ptrFloatEqual is two units.  A time.Time is an   *)
(* integer number of milliseconds; 0 is the zero time.  A topic is the     *)
(* sequence of its "/"-separated segments.                                 *)
(***************************************************************************)
EXTENDS Integers, Sequences, FiniteSets, TLC

\* ------------------------------------------------------------------ bounds
MaxMsgs == 2
MaxInject == 2
MaxBusPublishes == 3
MaxHookCalls == 2
MaxSnapshots == 1
MaxCommands == 2
MaxWebCalls == 1
MaxStatuses == 1
MaxBurst == 11

\* --------------------------------------------------------- representation
eps == 2
FloatUnit == 1000 * eps
Second == 1000

Nil == <<>>
Ptr(v) == <<v>>
IsNil(p) == p = <<>>
Deref(p) == p[1]

ZeroTime == 0

\* int(f) for a float64 f: truncation toward zero
FloatToInt(f) == IF f >= 0 THEN f \div FloatUnit ELSE -((-f) \div FloatUnit)

Abs(x) == IF x < 0 THEN -x ELSE x

\* ------------------------------------------------------------ configuration
\* Features is the set of DeviceFeatures flags that are true; HomeKit and Web are *bool
Devices ==
  << [ID |-> "d1", Name |-> "Sensor", Topic |-> <<"t1">>, Type |-> "climate_sensor",
      Features |-> {"Temperature", "Humidity"}, HomeKit |-> <<>>, Web |-> <<FALSE>>],
     [ID |-> "d2", Name |-> "Light", Topic |-> <<"t2">>, Type |-> "lightbulb",
      Features |-> {"Brightness", "Color", "ColorTemperature"}, HomeKit |-> <<TRUE>>, Web |-> <<>>],
     [ID |-> "d3", Name |-> "Plug", Topic |-> <<"t3">>, Type |-> "outlet",
      Features |-> {}, HomeKit |-> <<FALSE>>, Web |-> <<TRUE>>] >>

DeviceIDs == {Devices[i].ID : i \in 1..Len(Devices)}
UnknownID == "ghost"

DeviceOf(id) == CHOOSE d \in {Devices[i] : i \in 1..Len(Devices)} : d.ID = id

\* ------------------------------------------------------------ devices.State
FloatFields == {"Temperature", "Humidity", "Pressure", "Hue", "Saturation"}
IntFields == {"Battery", "Illuminance", "Brightness", "ColorTemp", "FanSpeed"}
BoolFields == {"Occupancy", "Contact", "WaterLeak", "Smoke", "Tamper", "On"}
PtrFields == FloatFields \cup IntFields \cup BoolFields

State(id, name, lastUpdated, lastSeen) ==
  [ID |-> id, Name |-> name,
   Temperature |-> Nil, Humidity |-> Nil, Battery |-> Nil, Occupancy |-> Nil,
   Illuminance |-> Nil, Pressure |-> Nil, Contact |-> Nil, WaterLeak |-> Nil,
   Smoke |-> Nil, Tamper |-> Nil,
   On |-> Nil, Brightness |-> Nil, Hue |-> Nil, Saturation |-> Nil, ColorTemp |-> Nil,
   FanSpeed |-> Nil, FanDirection |-> Nil, FanSwing |-> Nil,
   LinkQuality |-> 0, LastUpdated |-> lastUpdated, LastSeen |-> lastSeen]

StateChangedEvent(id, state, fields) ==
  [DeviceID |-> id, State |-> state, UpdatedFields |-> fields]

\* ------------------------------------------------------------ JSON payloads
\* a JSON value is a record with the single field that names its kind
Num(f) == [num |-> f]
Bool(b) == [bool |-> b]
Str(s) == [str |-> s]
Obj(o) == [obj |-> o]
JNull == [null |-> TRUE]
Invalid == [invalid |-> TRUE]

F(whole, halfMillis) == whole * FloatUnit + halfMillis

EmptyObject == [x \in {} |-> Nil]

\* variant: a JSON null is an error as well
UnmarshalObjectOnly(payload) ==
  CASE "obj" \in DOMAIN payload -> [err |-> FALSE, msg |-> payload.obj]
    [] OTHER -> [err |-> TRUE, msg |-> EmptyObject]

\* json.Unmarshal(payload, &msg) with msg a map[string]interface{}
Unmarshal(payload) ==
  CASE "obj" \in DOMAIN payload -> [err |-> FALSE, msg |-> payload.obj]
    [] "null" \in DOMAIN payload -> [err |-> FALSE, msg |-> EmptyObject]
    [] OTHER -> [err |-> TRUE, msg |-> EmptyObject]

\* v, ok := msg[key].(T)
Is(msg, key, kind) == key \in DOMAIN msg /\ kind \in DOMAIN msg[key]

Z2MStateToBool(state) == state = "ON"

BoolToZ2MState(on) == IF on THEN "ON" ELSE "OFF"

FanModeSpeed(fanMode) ==
  CASE fanMode = "off" -> 0
    [] fanMode = "low" -> 33
    [] fanMode = "medium" -> 66
    [] fanMode = "high" -> 100
    [] fanMode = "auto" -> 50
    [] OTHER -> 50

\* variant: the field is named whenever the key is present, whatever its type
ParseFloatAnyType(acc, msg, key, field) ==
  IF key \in DOMAIN msg
  THEN [st |-> [acc.st EXCEPT ![field] = IF Is(msg, key, "num") THEN Ptr(msg[key].num) ELSE Nil],
        fs |-> Append(acc.fs, field)]
  ELSE acc

\* one "if v, ok := msg[key].(T); ok { state.F = ...; fields = append(fields, F) }"
ParseFloat(acc, msg, key, field) ==
  IF Is(msg, key, "num")
  THEN [st |-> [acc.st EXCEPT ![field] = Ptr(msg[key].num)], fs |-> Append(acc.fs, field)]
  ELSE acc

ParseInt(acc, msg, key, field) ==
  IF Is(msg, key, "num")
  THEN [st |-> [acc.st EXCEPT ![field] = Ptr(FloatToInt(msg[key].num))], fs |-> Append(acc.fs, field)]
  ELSE acc

ParseBool(acc, msg, key, field) ==
  IF Is(msg, key, "bool")
  THEN [st |-> [acc.st EXCEPT ![field] = Ptr(msg[key].bool)], fs |-> Append(acc.fs, field)]
  ELSE acc

ParsePower(acc, msg, key) ==
  IF Is(msg, key, "str")
  THEN [st |-> [acc.st EXCEPT !.On = Ptr(Z2MStateToBool(msg[key].str))], fs |-> Append(acc.fs, "On")]
  ELSE acc

ParseLinkQuality(acc, msg) ==
  IF Is(msg, "linkquality", "num")
  THEN [st |-> [acc.st EXCEPT !.LinkQuality = FloatToInt(msg["linkquality"].num)],
        fs |-> Append(acc.fs, "LinkQuality")]
  ELSE acc

\* variant: both colour fields are named whenever the colour object is there
ParseColorBoth(acc, msg) ==
  IF Is(msg, "color", "obj")
  THEN LET parsed == ParseFloat(ParseFloat([acc EXCEPT !.fs = <<>>], msg["color"].obj, "hue", "Hue"),
                                msg["color"].obj, "saturation", "Saturation")
       IN [st |-> parsed.st, fs |-> acc.fs \o <<"Hue", "Saturation">>]
  ELSE acc

ParseColor(acc, msg) ==
  IF Is(msg, "color", "obj")
  THEN ParseFloat(ParseFloat(acc, msg["color"].obj, "hue", "Hue"),
                  msg["color"].obj, "saturation", "Saturation")
  ELSE acc

ParseFanMode(acc, msg) ==
  IF Is(msg, "fan_mode", "str")
  THEN [st |-> [acc.st EXCEPT !.FanSpeed = Ptr(FanModeSpeed(msg["fan_mode"].str))],
        fs |-> Append(acc.fs, "FanSpeed")]
  ELSE acc

\* MQTTHook.parseZ2MMessage: (state, fields)
parseZ2MMessage(device, msg, t) ==
  LET a0 == [st |-> State(device.ID, device.Name, t, t), fs |-> <<>>]
      a1 == ParseLinkQuality(a0, msg)
      a2 == ParseFloat(a1, msg, "temperature", "Temperature")
      a3 == ParseFloat(a2, msg, "humidity", "Humidity")
      a4 == ParseInt(a3, msg, "battery", "Battery")
      a5 == ParseBool(a4, msg, "occupancy", "Occupancy")
      a6 == ParseInt(a5, msg, "illuminance", "Illuminance")
      a7 == ParseInt(a6, msg, "illuminance_lux", "Illuminance")
      a8 == ParseFloat(a7, msg, "pressure", "Pressure")
      a9 == ParseBool(a8, msg, "contact", "Contact")
      a10 == ParseBool(a9, msg, "water_leak", "WaterLeak")
      a11 == ParseBool(a10, msg, "smoke", "Smoke")
      a12 == ParseBool(a11, msg, "tamper", "Tamper")
      a13 == ParsePower(a12, msg, "state")
      a14 == ParseInt(a13, msg, "brightness", "Brightness")
      a15 == ParseInt(a14, msg, "color_temp", "ColorTemp")
      a16 == ParseColor(a15, msg)
      a17 == ParsePower(a16, msg, "fan_state")
      a18 == ParseInt(a17, msg, "fan_speed", "FanSpeed")
      a19 == ParseFanMode(a18, msg)
  IN [st |-> a19.st, fs |-> a19.fs \o <<"LastSeen", "LastUpdated">>]

\* ------------------------------------------------------------- value codec

\* variant: rounding to the nearest percent instead of truncation
Z2MBrightnessToHAPRounded(z2m) ==
  IF z2m <= 0 THEN 0
  ELSE IF z2m >= 254 THEN 100
  ELSE (z2m * 100 + 127) \div 254

\* variant: the division is done on integers before the scaling
Z2MBrightnessToHAPIntDiv(z2m) ==
  IF z2m <= 0 THEN 0
  ELSE IF z2m >= 254 THEN 100
  ELSE (z2m \div 254) * 100

\* int(float64(z2m) * 100.0 / 254.0): the product is exact and a quotient that is
\* not whole lies at least 1/254 from a whole number, so the truncation of the
\* float64 quotient is the integer quotient
Z2MBrightnessToHAP(z2m) ==
  IF z2m <= 0 THEN 0
  ELSE IF z2m >= 254 THEN 100
  ELSE (z2m * 100) \div 254

\* variant: rounding to the nearest value instead of truncation
HAPBrightnessToZ2MRounded(hap) ==
  IF hap <= 0 THEN 0
  ELSE IF hap >= 100 THEN 254
  ELSE (hap * 254 + 50) \div 100

HAPBrightnessToZ2M(hap) ==
  IF hap <= 0 THEN 0
  ELSE IF hap >= 100 THEN 254
  ELSE (hap * 254) \div 100

\* variant: only the upper end is clamped
ClampColorTempUpper(ct) ==
  IF ct > 500 THEN 500 ELSE ct

ClampColorTemp(ct) ==
  IF ct < 140 THEN 140
  ELSE IF ct > 500 THEN 500
  ELSE ct

\* ------------------------------------------------- events.StateUpdateEvent
\* time.Duration.Round(time.Second): nearest second, halves away from zero
RoundSecond(d) == ((d + (Second \div 2)) \div Second) * Second

NeverSeen == [never |-> TRUE, ago |-> 0]
LastSeenAgo(d) == [never |-> FALSE, ago |-> RoundSecond(d)]

\* connectionStatus(lastSeen) evaluated at time t
connectionStatus(lastSeen, t) ==
  IF lastSeen = ZeroTime
  THEN [state |-> "disconnected", note |-> NeverSeen]
  ELSE LET since == t - lastSeen IN
       IF since < 30 * Second THEN [state |-> "connected", note |-> LastSeenAgo(since)]
       ELSE IF since < 60 * Second THEN [state |-> "stale", note |-> LastSeenAgo(since)]
       ELSE [state |-> "disconnected", note |-> LastSeenAgo(since)]

\* the event Manager.publishStateUpdate builds from (source, deviceID, state) at time t
StateUpdateOf(source, deviceID, state, t) ==
  LET conn == connectionStatus(state.LastSeen, t) IN
  [Timestamp |-> t, Source |-> source, DeviceID |-> deviceID,
   Name |-> IF deviceID \in DeviceIDs THEN DeviceOf(deviceID).Name ELSE deviceID,
   On |-> state.On,
   Brightness |-> IF IsNil(state.Brightness) THEN Nil
                  ELSE Ptr(Z2MBrightnessToHAP(Deref(state.Brightness))),
   Hue |-> state.Hue, Saturation |-> state.Saturation, ColorTemp |-> state.ColorTemp,
   Temperature |-> state.Temperature, Humidity |-> state.Humidity,
   Battery |-> state.Battery, Occupancy |-> state.Occupancy,
   Illuminance |-> state.Illuminance, Pressure |-> state.Pressure,
   Contact |-> state.Contact, WaterLeak |-> state.WaterLeak, Smoke |-> state.Smoke,
   Tamper |-> state.Tamper, FanSpeed |-> state.FanSpeed,
   LinkQuality |-> state.LinkQuality, LastSeen |-> state.LastSeen,
   LastUpdated |-> state.LastUpdated,
   ConnectionState |-> conn.state, ConnectionNote |-> conn.note]

ptrBoolEqual(a, b) ==
  IF IsNil(a) /\ IsNil(b) THEN TRUE
  ELSE IF IsNil(a) \/ IsNil(b) THEN FALSE
  ELSE Deref(a) = Deref(b)

ptrIntEqual(a, b) ==
  IF IsNil(a) /\ IsNil(b) THEN TRUE
  ELSE IF IsNil(a) \/ IsNil(b) THEN FALSE
  ELSE Deref(a) = Deref(b)

\* variant: a nil pointer matches anything
ptrFloatEqualNilMatches(a, b) ==
  IF IsNil(a) \/ IsNil(b) THEN TRUE
  ELSE Abs(Deref(a) - Deref(b)) < eps

ptrFloatEqual(a, b) ==
  IF IsNil(a) /\ IsNil(b) THEN TRUE
  ELSE IF IsNil(a) \/ IsNil(b) THEN FALSE
  ELSE Abs(Deref(a) - Deref(b)) < eps

\* variant: the event timestamp is compared too
EqualsWithTimestamp(e, other) ==
  /\ e.Timestamp = other.Timestamp
  /\ e.DeviceID = other.DeviceID
  /\ e.Name = other.Name
  /\ ptrBoolEqual(e.On, other.On)
  /\ ptrIntEqual(e.Brightness, other.Brightness)
  /\ ptrFloatEqual(e.Hue, other.Hue)
  /\ ptrFloatEqual(e.Saturation, other.Saturation)
  /\ ptrIntEqual(e.ColorTemp, other.ColorTemp)
  /\ ptrFloatEqual(e.Temperature, other.Temperature)
  /\ ptrFloatEqual(e.Humidity, other.Humidity)
  /\ ptrIntEqual(e.Battery, other.Battery)
  /\ ptrBoolEqual(e.Occupancy, other.Occupancy)
  /\ ptrIntEqual(e.Illuminance, other.Illuminance)
  /\ ptrFloatEqual(e.Pressure, other.Pressure)
  /\ ptrBoolEqual(e.Contact, other.Contact)
  /\ ptrBoolEqual(e.WaterLeak, other.WaterLeak)
  /\ ptrBoolEqual(e.Smoke, other.Smoke)
  /\ ptrBoolEqual(e.Tamper, other.Tamper)
  /\ ptrIntEqual(e.FanSpeed, other.FanSpeed)
  /\ e.LinkQuality = other.LinkQuality
  /\ e.LastSeen = other.LastSeen
  /\ e.LastUpdated = other.LastUpdated
  /\ e.ConnectionState = other.ConnectionState
  /\ e.ConnectionNote = other.ConnectionNote

\* variant: last-seen is left out of the comparison
EqualsIgnoringLastSeen(e, other) ==
  /\ e.DeviceID = other.DeviceID
  /\ e.Name = other.Name
  /\ ptrBoolEqual(e.On, other.On)
  /\ ptrIntEqual(e.Brightness, other.Brightness)
  /\ ptrFloatEqual(e.Hue, other.Hue)
  /\ ptrFloatEqual(e.Saturation, other.Saturation)
  /\ ptrIntEqual(e.ColorTemp, other.ColorTemp)
  /\ ptrFloatEqual(e.Temperature, other.Temperature)
  /\ ptrFloatEqual(e.Humidity, other.Humidity)
  /\ ptrIntEqual(e.Battery, other.Battery)
  /\ ptrBoolEqual(e.Occupancy, other.Occupancy)
  /\ ptrIntEqual(e.Illuminance, other.Illuminance)
  /\ ptrFloatEqual(e.Pressure, other.Pressure)
  /\ ptrBoolEqual(e.Contact, other.Contact)
  /\ ptrBoolEqual(e.WaterLeak, other.WaterLeak)
  /\ ptrBoolEqual(e.Smoke, other.Smoke)
  /\ ptrBoolEqual(e.Tamper, other.Tamper)
  /\ ptrIntEqual(e.FanSpeed, other.FanSpeed)
  /\ e.LinkQuality = other.LinkQuality
  /\ e.LastUpdated = other.LastUpdated
  /\ e.ConnectionState = other.ConnectionState
  /\ e.ConnectionNote = other.ConnectionNote

\* StateUpdateEvent.Equals
Equals(e, other) ==
  /\ e.DeviceID = other.DeviceID
  /\ e.Name = other.Name
  /\ ptrBoolEqual(e.On, other.On)
  /\ ptrIntEqual(e.Brightness, other.Brightness)
  /\ ptrFloatEqual(e.Hue, other.Hue)
  /\ ptrFloatEqual(e.Saturation, other.Saturation)
  /\ ptrIntEqual(e.ColorTemp, other.ColorTemp)
  /\ ptrFloatEqual(e.Temperature, other.Temperature)
  /\ ptrFloatEqual(e.Humidity, other.Humidity)
  /\ ptrIntEqual(e.Battery, other.Battery)
  /\ ptrBoolEqual(e.Occupancy, other.Occupancy)
  /\ ptrIntEqual(e.Illuminance, other.Illuminance)
  /\ ptrFloatEqual(e.Pressure, other.Pressure)
  /\ ptrBoolEqual(e.Contact, other.Contact)
  /\ ptrBoolEqual(e.WaterLeak, other.WaterLeak)
  /\ ptrBoolEqual(e.Smoke, other.Smoke)
  /\ ptrBoolEqual(e.Tamper, other.Tamper)
  /\ ptrIntEqual(e.FanSpeed, other.FanSpeed)
  /\ e.LinkQuality = other.LinkQuality
  /\ e.LastSeen = other.LastSeen
  /\ e.LastUpdated = other.LastUpdated
  /\ e.ConnectionState = other.ConnectionState
  /\ e.ConnectionNote = other.ConnectionNote

\* ------------------------------------------------------------------- inputs
T0 == ZeroTime + 1
Instants == {T0, T0 + 30 * Second + 400, T0 + 60 * Second + 800}

Z2M == "zigbee2mqtt"

Topics ==
  { <<Z2M, "t1">>, <<Z2M, "t2">>, <<Z2M, "nosuch">>,
    <<Z2M, "bridge", "state">>, <<Z2M, "t1", "set">>, <<Z2M, "t2", "get">>,
    <<"homeassistant", "t1">> }

Payloads ==
  { Obj([temperature |-> Num(F(20, 0))]),
    Obj([humidity |-> Num(F(55, 0))]),
    Obj([temperature |-> Num(F(20, 1)), linkquality |-> Num(F(142, 0))]),
    Obj([state |-> Str("ON"), brightness |-> Num(F(200, 1000))]),
    Obj([temperature |-> Str("hot")]),
    Obj(EmptyObject),
    Invalid }

\* ---------------------------------------------------------------- variables
VARIABLES
  now,          \* wall clock (time.Now())
  mainPc,       \* NewManager: index of the next device configuration to initialise
  states,       \* Manager.states
  mu,           \* Manager.mu: [writer |-> BOOLEAN, readers |-> Nat]
  stateQueue,   \* events pending on Manager.stateSubscriber
  smPc,         \* ProcessStateEvents: "recv", "merge", "publish"
  smEvent,      \* ProcessStateEvents: the event being merged
  smIdx,        \* ProcessStateEvents: index into event.UpdatedFields
  stateCopy,    \* ProcessStateEvents: stateCopy
  lastStates,   \* Bus.lastStates
  delivered,    \* StateUpdate events forwarded to a subscriber of the bus
  submitted,    \* StateUpdate events handed to Bus.PublishStateUpdate
  emitted,      \* number of StateChanged events published on the event bus
  rdPc,         \* Snapshot: "idle", "reading"
  snap,         \* Snapshot: result under construction
  snapshots,    \* number of Snapshot and Device calls started
  devRead,      \* Device: the (State, found) pair last returned
  warned,       \* number of "Received state event for unknown device" warnings
  injected,     \* number of StateChanged / StateUpdate events published by a bus client
  hookLog,      \* the StateChanged events the ingestion hook has published, in order
  deviceCfg,    \* what LoadConfig was given and what it returned
  serving,      \* Main past its accessory check: "starting", "fatal" or "serving"
  stateMu,      \* Bus.stateMu is locked
  publishing,   \* per caller of Bus.PublishStateUpdate: its position and its event
  callback,     \* the remote-update callback in progress: its position and its command
  clientChan,   \* per SSE client: close(clientChan) calls and sends on the closed channel
  webClosed,    \* WebServer.Close has run
  call,         \* the last direct call of a lookup or codec function and its result
  commands,     \* the command channel (chan CommandEvent)
  cmdPc,        \* ProcessCommands: "recv", "power", "brightness", "color", "colortemp", "exited"
  cmdCurrent,   \* ProcessCommands: the command being processed
  mqttLog,      \* calls of mqttServer.Publish: topic, payload and whether it failed
  errorEvents,  \* ErrorEvents published by Manager.errorPublisher
  commandEvents,\* CommandEvents published on the event bus (Bus.PublishCommand)
  enqueued,     \* number of sends on the command channel
  webCalls,     \* number of HandleToggle / HandleBrightness requests served
  eventLog,     \* WebServer.eventLog
  cancelled,    \* ctx.Done() is closed
  accessories,  \* HAPManager.accessories: device id -> characteristic values
  accessoryOrder, \* HAPManager.accessoryOrder
  hapIdx,       \* events of the bus HAPManager.stateSubscriber has passed
  hapPc,        \* HAPManager: "off" (not constructed), "built", "recv", "exited"
  hapStats,     \* HAPManager incomingCommands, outgoingUpdates, lastActivity
  webIdx,       \* events of the bus WebServer.stateSubscriber has passed
  webPc,        \* processStateChanges: "off", "recv", "exited"
  currentState, \* WebServer.currentState
  sseClients,   \* WebServer.sseClients: client -> buffered channel content
  sseConn,      \* per SSE client: where HandleSSE stands and what it has written
  statusQueue,  \* events pending on WebServer.statusSubscriber
  statusPc,     \* processConnectionStatuses: "off", "recv", "exited"
  connectionState, \* WebServer.connectionState
  statusCount   \* number of ConnectionStatus events published

sideVars == <<stateMu, publishing, callback, clientChan, webClosed>>
harnessVars == <<deviceCfg, call, serving, sideVars>>
NoCall == [fn |-> "none"]
\* the requests of /events, and a channel just made: clientChan := make(chan ..., 10)
PushClients == {"c1", "c2"}
OpenChan == [closes |-> 0, lateSends |-> 0]
commandVars == <<commands, cmdPc, cmdCurrent, mqttLog, errorEvents, commandEvents, enqueued>>
uiVars == <<webCalls, eventLog>>
hapVars == <<accessories, accessoryOrder, hapIdx, hapPc, hapStats>>
webVars == <<webIdx, webPc, currentState, sseClients, sseConn>>
statusVars == <<statusQueue, statusPc, connectionState, statusCount>>
controlVars == <<commandVars, uiVars, cancelled, hapVars, webVars, statusVars>>

vars == <<now, mainPc, states, mu, stateQueue, smPc, smEvent, smIdx, stateCopy,
          lastStates, delivered, submitted, emitted, rdPc, snap, snapshots,
          devRead, warned, injected, hookLog, harnessVars, controlVars>>

managerVars == <<states, mu, stateQueue, smPc, smEvent, smIdx, stateCopy>>
workerVars == <<smPc, smEvent, smIdx, stateCopy>>
busVars == <<lastStates, delivered, submitted>>
readerVars == <<rdPc, snap, snapshots, devRead>>
countVars == <<emitted, warned, injected>>

\* devices.CommandEvent: every payload is a pointer
CommandEvent(deviceID, on, brightness, hue, saturation, colorTemp) ==
  [DeviceID |-> deviceID, On |-> on, Brightness |-> brightness,
   Hue |-> hue, Saturation |-> saturation, ColorTemp |-> colorTemp]

NoCommand == CommandEvent("", Nil, Nil, Nil, Nil, Nil)

NoEvent == StateChangedEvent("", State("", "", ZeroTime, ZeroTime), <<>>)
NoState == State("", "", ZeroTime, ZeroTime)
NoSnap == [x \in {} |-> NoState]

Running == mainPc > Len(Devices)

\* ---------------------------------------------------------------- event bus
\* the duplicate test of Bus.PublishStateUpdate: last, ok := lastStates[id]; ok && event.Equals(last)
IsDuplicate(last, event) ==
  event.DeviceID \in DOMAIN last /\ Equals(event, last[event.DeviceID])

\* Bus.PublishStateUpdate (the whole call runs under Bus.stateMu)
PublishStateUpdate(event) ==
  /\ submitted' = Append(submitted, event)
  /\ IF IsDuplicate(lastStates, event)
     THEN UNCHANGED <<delivered, lastStates>>
     ELSE /\ delivered' = Append(delivered, event)
          /\ lastStates' = (event.DeviceID :> event) @@ lastStates

\* the goroutines that call Bus.PublishStateUpdate side by side
Publishers == {"p1", "p2"}
NotPublishing == [pc |-> "idle"]

publishFrame ==
  UNCHANGED <<now, mainPc, managerVars, readerVars, emitted, warned, hookLog,
              deviceCfg, call, serving, callback, clientChan, webClosed, controlVars>>

\* a caller enters Bus.PublishStateUpdate and reaches b.stateMu.Lock()
PublishEnter(c, event, limit) ==
  /\ publishing[c].pc = "idle"
  /\ injected < limit
  /\ injected' = injected + 1
  /\ submitted' = Append(submitted, event)
  /\ publishing' = [publishing EXCEPT ![c] = [pc |-> "lock", event |-> event]]
  /\ UNCHANGED <<stateMu, delivered, lastStates>>
  /\ publishFrame

\* variant: the callers do not wait for each other
StateMuFreeAlways(locked) == TRUE

\* b.stateMu.Lock() returns when the mutex is free
StateMuFree(locked) == ~locked

\* b.stateMu.Lock(); last, ok := b.lastStates[event.DeviceID];
\* if ok && event.Equals(last) { return }   (the deferred Unlock runs on return)
PublishCompare(c) ==
  /\ publishing[c].pc = "lock"
  /\ StateMuFree(stateMu)
  /\ IF IsDuplicate(lastStates, publishing[c].event)
     THEN /\ publishing' = [publishing EXCEPT ![c] = NotPublishing]
          /\ UNCHANGED stateMu
     ELSE /\ publishing' = [publishing EXCEPT ![c].pc = "forward"]
          /\ stateMu' = TRUE
  /\ UNCHANGED <<injected, submitted, delivered, lastStates>>
  /\ publishFrame

\* publisher.Publish(event)
PublishForward(c) ==
  /\ publishing[c].pc = "forward"
  /\ delivered' = Append(delivered, publishing[c].event)
  /\ publishing' = [publishing EXCEPT ![c].pc = "retain"]
  /\ UNCHANGED <<injected, submitted, stateMu, lastStates>>
  /\ publishFrame

\* b.lastStates[event.DeviceID] = event; the deferred b.stateMu.Unlock()
PublishRetain(c) ==
  /\ publishing[c].pc = "retain"
  /\ lastStates' = (publishing[c].event.DeviceID :> publishing[c].event) @@ lastStates
  /\ stateMu' = FALSE
  /\ publishing' = [publishing EXCEPT ![c] = NotPublishing]
  /\ UNCHANGED <<injected, submitted, delivered>>
  /\ publishFrame

\* Manager.publishStateUpdate
publishStateUpdate(source, deviceID, state) ==
  PublishStateUpdate(StateUpdateOf(source, deviceID, state, now))

\* ------------------------------------------------------------------- clock
Tick(t) ==
  /\ Running
  /\ t \in Instants
  /\ t > now
  /\ now' = t
  /\ UNCHANGED <<controlVars, hookLog, harnessVars, mainPc, managerVars, busVars, countVars, readerVars>>

\* -------------------------------------------------------------- NewManager
\* variant: a zero value instead of a nil pointer
NewStateZeroed(deviceConfig, t) ==
  [State(deviceConfig.ID, deviceConfig.Name, t, ZeroTime) EXCEPT !.Temperature = Ptr(0)]

\* dm.states[deviceConfig.ID] = &State{ID, Name, LastUpdated: time.Now(), LastSeen: time.Time{}}
NewState(deviceConfig, t) == State(deviceConfig.ID, deviceConfig.Name, t, ZeroTime)

\* one iteration of "for _, deviceConfig := range deviceConfigs"
NewManagerStep ==
  /\ ~Running
  /\ LET deviceConfig == Devices[mainPc]
         st == NewState(deviceConfig, now)
     IN /\ states' = (deviceConfig.ID :> st) @@ states
        /\ publishStateUpdate("initial", deviceConfig.ID, st)
  /\ mainPc' = mainPc + 1
  /\ UNCHANGED <<controlVars, hookLog, harnessVars, now, mu, stateQueue, workerVars, countVars, readerVars>>

\* ------------------------------------------------------- Manager.mu (RWMutex)
CanLock(m) == ~m.writer /\ m.readers = 0
\* variant: readers do not wait for the writer
CanRLockAlways(m) == TRUE
CanRLock(m) == ~m.writer

\* ------------------------------------------------------------ ingestion hook
\* variant: any first segment is taken for the device namespace
HasPrefixAny(topic) == Len(topic) >= 2

HasPrefixZ2M(topic) == Len(topic) >= 2 /\ topic[1] = Z2M
HasPrefixBridge(topic) == Len(topic) >= 3 /\ topic[1] = Z2M /\ topic[2] = "bridge"
HasSuffix(topic, word) == Len(topic) >= 2 /\ topic[Len(topic)] = word

\* Manager.DeviceByTopic: the results a range over the devices map can give
DeviceByTopic(topic) ==
  LET matching == {i \in 1..Len(Devices) : Devices[i].Topic = topic} IN
  IF matching = {} THEN {[found |-> FALSE, device |-> Devices[1]]}
  ELSE {[found |-> TRUE, device |-> Devices[i]] : i \in matching}

\* MQTTHook.OnPublish: the StateChanged events a call may publish (none or one)
HookEvents(topic, payload, t) ==
  IF ~HasPrefixZ2M(topic) \/ HasPrefixBridge(topic)
     \/ HasSuffix(topic, "set") \/ HasSuffix(topic, "get")
  THEN {<<>>}
  ELSE LET un == Unmarshal(payload) IN
       { IF ~r.found \/ un.err THEN <<>>
         ELSE LET parsed == parseZ2MMessage(r.device, un.msg, t) IN
              IF Len(parsed.fs) > 0
              THEN <<StateChangedEvent(r.device.ID, parsed.st, parsed.fs)>>
              ELSE <<>>
         : r \in DeviceByTopic(Tail(topic)) }

\* variant: a newer event overtakes the events still pending
EnqueueFront(queue, evs) == evs \o queue

\* statePublisher.Publish(event): the event joins the subscriber's queue behind the pending ones
Enqueue(queue, evs) == queue \o evs

NeedsLookup(topic) ==
  ~(~HasPrefixZ2M(topic) \/ HasPrefixBridge(topic)
    \/ HasSuffix(topic, "set") \/ HasSuffix(topic, "get"))

OnPublish(topic, payload) ==
  /\ Running
  /\ emitted < MaxMsgs
  /\ NeedsLookup(topic) => CanRLock(mu)
  /\ \E evs \in HookEvents(topic, payload, now) :
       /\ stateQueue' = Enqueue(stateQueue, evs)
       /\ hookLog' = hookLog \o evs
       /\ emitted' = emitted + Len(evs)
  /\ UNCHANGED <<controlVars, harnessVars, now, mainPc, states, mu, workerVars, busVars, readerVars,
                 warned, injected>>

\* ------------------------------------------------- Manager.ProcessStateEvents
MergeFields ==
  {"On", "Brightness", "Hue", "Saturation", "ColorTemp", "Temperature", "Humidity",
   "Battery", "Occupancy", "Illuminance", "Pressure", "Contact", "WaterLeak", "Smoke",
   "Tamper", "FanSpeed", "LinkQuality", "LastSeen", "LastUpdated"}

\* variant: the whole candidate state replaces the stored state
MergeFieldWhole(state, event, field) == event.State

\* variant: every iteration also stamps last-updated
MergeFieldStamping(state, event, field) ==
  IF field \in MergeFields
  THEN [state EXCEPT ![field] = event.State[field], !.LastUpdated = event.State.LastUpdated]
  ELSE [state EXCEPT !.LastUpdated = event.State.LastUpdated]

\* one iteration of "for _, field := range event.UpdatedFields { switch field {...} }"
MergeField(state, event, field) ==
  IF field \in MergeFields
  THEN [state EXCEPT ![field] = event.State[field]]
  ELSE state

\* variant: the early "continue" forgets the Unlock
LockedAfterMiss(m) == [m EXCEPT !.writer = TRUE]

\* the lock after "if !exists { dm.mu.Unlock(); ...; continue }"
UnlockedAfterMiss(m) == [m EXCEPT !.writer = FALSE]

\* event := <-stateSubscriber.Events(); mu.Lock(); state, exists := states[event.DeviceID]
SMReceive ==
  /\ Running
  /\ smPc = "recv"
  /\ stateQueue # <<>>
  /\ CanLock(mu)
  /\ LET event == Head(stateQueue) IN
       /\ stateQueue' = Tail(stateQueue)
       /\ IF event.DeviceID \in DOMAIN states
          THEN /\ mu' = [mu EXCEPT !.writer = TRUE]
               /\ smPc' = "merge"
               /\ smEvent' = event
               /\ smIdx' = 1
               /\ UNCHANGED warned
          ELSE \* mu.Unlock(); logger.Warn; continue
               /\ mu' = UnlockedAfterMiss(mu)
               /\ warned' = warned + 1
               /\ UNCHANGED <<smPc, smEvent, smIdx>>
  /\ UNCHANGED <<controlVars, hookLog, harnessVars, now, mainPc, states, stateCopy, busVars, emitted, injected, readerVars>>

SMMergeField ==
  /\ smPc = "merge"
  /\ smIdx <= Len(smEvent.UpdatedFields)
  /\ states' = [states EXCEPT ![smEvent.DeviceID] =
                  MergeField(@, smEvent, smEvent.UpdatedFields[smIdx])]
  /\ smIdx' = smIdx + 1
  /\ UNCHANGED <<controlVars, hookLog, harnessVars, now, mainPc, mu, stateQueue, smPc, smEvent, stateCopy, busVars,
                 countVars, readerVars>>

\* variant: the lock is kept until the update has been published
LockedAfterMerge(m) == m

\* the lock after "stateCopy := *state; dm.mu.Unlock()"
UnlockedAfterMerge(m) == [m EXCEPT !.writer = FALSE]

\* stateCopy := *state; mu.Unlock()
SMUnlock ==
  /\ smPc = "merge"
  /\ smIdx > Len(smEvent.UpdatedFields)
  /\ stateCopy' = states[smEvent.DeviceID]
  /\ mu' = UnlockedAfterMerge(mu)
  /\ smPc' = "publish"
  /\ UNCHANGED <<controlVars, hookLog, harnessVars, now, mainPc, states, stateQueue, smEvent, smIdx, busVars,
                 countVars, readerVars>>

\* variant: the update is built from the event's candidate state
PublishedCandidate(copy, event) == event.State

\* the state the worker hands to publishStateUpdate
PublishedState(copy, event) == copy

\* dm.publishStateUpdate("eventbus", event.DeviceID, stateCopy)
SMPublish ==
  /\ smPc = "publish"
  /\ publishStateUpdate("eventbus", smEvent.DeviceID, PublishedState(stateCopy, smEvent))
  /\ smPc' = "recv"
  /\ UNCHANGED <<controlVars, hookLog, harnessVars, now, mainPc, states, mu, stateQueue, smEvent, smIdx, stateCopy,
                 countVars, readerVars>>

\* ---------------------------------------------- Manager.Snapshot / Device
\* dm.mu.RLock(); result := make(map...)
SnapshotBegin ==
  /\ Running
  /\ rdPc = "idle"
  /\ snapshots < MaxSnapshots
  /\ CanRLock(mu)
  /\ mu' = [mu EXCEPT !.readers = @ + 1]
  /\ rdPc' = "reading"
  /\ snap' = NoSnap
  /\ snapshots' = snapshots + 1
  /\ UNCHANGED <<controlVars, hookLog, harnessVars, now, mainPc, states, stateQueue, workerVars, busVars, countVars, devRead>>

\* one iteration of "for id, info := range dm.devices": result[id] = {info.Config, *state}
SnapshotCopy(id) ==
  /\ rdPc = "reading"
  /\ id \in DOMAIN states
  /\ id \notin DOMAIN snap
  /\ snap' = (id :> states[id]) @@ snap
  /\ UNCHANGED <<controlVars, hookLog, harnessVars, now, mainPc, managerVars, busVars, countVars, rdPc, snapshots, devRead>>

\* return result (deferred dm.mu.RUnlock())
SnapshotEnd ==
  /\ rdPc = "reading"
  /\ DOMAIN snap = DOMAIN states
  /\ mu' = [mu EXCEPT !.readers = @ - 1]
  /\ rdPc' = "idle"
  /\ UNCHANGED <<controlVars, hookLog, harnessVars, now, mainPc, states, stateQueue, workerVars, busVars, countVars,
                 snap, snapshots, devRead>>

\* Manager.Device(deviceID): RLock, copy, RUnlock
Device(deviceID) ==
  /\ Running
  /\ rdPc = "idle"
  /\ snapshots < MaxSnapshots
  /\ CanRLock(mu)
  /\ devRead' = IF deviceID \in DOMAIN states
                THEN [state |-> states[deviceID], found |-> TRUE]
                ELSE [state |-> NoState, found |-> FALSE]
  /\ snapshots' = snapshots + 1
  /\ UNCHANGED <<controlVars, hookLog, harnessVars, now, mainPc, managerVars, busVars, countVars, rdPc, snap>>

\* ------------------------------------------- other publishers on the event bus
\* a bus client publishing a StateChangedEvent directly (eventbus.Publish[StateChangedEvent])
With(state, field, value) == [state EXCEPT ![field] = value]

InjectPool(t) ==
  { StateChangedEvent("d1", With(State("d1", "Sensor", t, ZeroTime), "Temperature", Ptr(F(20, 0))),
                      <<"Temperature">>),
    StateChangedEvent("d1", With(With(State("d1", "Sensor", t, ZeroTime),
                                      "Humidity", Ptr(F(55, 0))), "Temperature", Ptr(F(99, 0))),
                      <<"Humidity">>),
    StateChangedEvent("d1", With(State("d1", "Sensor", t, t), "Temperature", Ptr(F(99, 0))),
                      <<>>),
    StateChangedEvent("d1", With(State("d1", "Sensor", t, t), "FanDirection", Ptr(TRUE)),
                      <<"Temperature", "FanDirection", "LastUpdated">>),
    StateChangedEvent(UnknownID, With(State(UnknownID, "Ghost", t, t), "Temperature", Ptr(F(20, 0))),
                      <<"Temperature", "LastSeen">>) }

PublishStateChanged(event) ==
  /\ Running
  /\ injected < MaxInject
  /\ stateQueue' = Append(stateQueue, event)
  /\ injected' = injected + 1
  /\ UNCHANGED <<controlVars, hookLog, harnessVars, now, mainPc, states, mu, workerVars, busVars, readerVars,
                 emitted, warned>>

\* ------------------------------------------------------- command channel
\* commands := make(chan devices.CommandEvent, 10)
CommandQueueCap == 10

\* variant: a send that gives the command up when the buffer is full
ChanSendOrDrop(queue, cmd) ==
  [ready |-> TRUE,
   queue |-> IF Len(queue) < CommandQueueCap THEN Append(queue, cmd) ELSE queue]

\* "commands <- cmd": the sender waits while the buffer is full
ChanSend(queue, cmd) ==
  [ready |-> Len(queue) < CommandQueueCap, queue |-> Append(queue, cmd)]

\* a client of the command channel other than an accessory callback
SendCommand(cmd, limit) ==
  /\ Running
  /\ enqueued < limit
  /\ LET sent == ChanSend(commands, cmd) IN
       /\ sent.ready
       /\ commands' = sent.queue
  /\ enqueued' = enqueued + 1
  /\ UNCHANGED <<now, mainPc, managerVars, busVars, readerVars, countVars, hookLog, harnessVars,
                 cmdPc, cmdCurrent, mqttLog, errorEvents, commandEvents,
                 uiVars, cancelled, hapVars, webVars, statusVars>>

\* ------------------------------------------------ Manager.Set* (bus commands)
\* fmt.Sprintf("zigbee2mqtt/%s/set", info.Config.Topic)
CommandTopic(device) == <<Z2M>> \o device.Topic \o <<"set">>

PowerPayload(on) == Obj([state |-> Str(BoolToZ2MState(on))])
BrightnessPayload(brightness) ==
  Obj([brightness |-> Num(HAPBrightnessToZ2M(brightness) * FloatUnit)])
ColorPayload(hue, saturation) ==
  Obj([color |-> Obj([hue |-> Num(hue), saturation |-> Num(saturation)])])
ColorTempPayload(colorTemp) == Obj([color_temp |-> Num(colorTemp * FloatUnit)])

ErrorEvent(deviceID) == [DeviceID |-> deviceID]

\* variant: no lookup of the device, the identifier is used as the routing key
PublishCallUnchecked(deviceID, payload, failed) ==
  <<[topic |-> <<Z2M, deviceID, "set">>, payload |-> payload, failed |-> failed]>>

\* the calls of mqttServer.Publish a Set* method makes: none when "!exists"
PublishCall(deviceID, payload, failed) ==
  IF deviceID \in DeviceIDs
  THEN <<[topic |-> CommandTopic(DeviceOf(deviceID)), payload |-> payload, failed |-> failed]>>
  ELSE <<>>

\* the error a Set* method returns
SetErr(deviceID, failed) == deviceID \notin DeviceIDs \/ failed

SetPower(deviceID, on, failed) ==
  LET calls == PublishCall(deviceID, PowerPayload(on), failed) IN
  /\ mqttLog' = mqttLog \o calls
  /\ errorEvents' = errorEvents \o
       (IF calls # <<>> /\ failed THEN <<ErrorEvent(deviceID)>> ELSE <<>>)

SetBrightness(deviceID, brightness, failed) ==
  /\ mqttLog' = mqttLog \o PublishCall(deviceID, BrightnessPayload(brightness), failed)
  /\ UNCHANGED errorEvents

SetColor(deviceID, hue, saturation, failed) ==
  /\ mqttLog' = mqttLog \o PublishCall(deviceID, ColorPayload(hue, saturation), failed)
  /\ UNCHANGED errorEvents

SetColorTemp(deviceID, colorTemp, failed) ==
  /\ mqttLog' = mqttLog \o PublishCall(deviceID, ColorTempPayload(colorTemp), failed)
  /\ UNCHANGED errorEvents

\* --------------------------------------------------- Manager.ProcessCommands
\* variant: the first failure ends the processing of the command
AfterStepAbort(pc, err) ==
  IF err THEN "recv"
  ELSE CASE pc = "power" -> "brightness"
         [] pc = "brightness" -> "color"
         [] pc = "color" -> "colortemp"
         [] pc = "colortemp" -> "recv"

\* processCommand: the four "if cmd.X != nil" blocks run one after the other; an error is logged
AfterStep(pc, err) ==
  CASE pc = "power" -> "brightness"
    [] pc = "brightness" -> "color"
    [] pc = "color" -> "colortemp"
    [] pc = "colortemp" -> "recv"

\* variant: the power order of a command is written to the store at once
StoreAfterCommandOptimistic(store, cmd) ==
  IF cmd.DeviceID \in DOMAIN store /\ ~IsNil(cmd.On)
  THEN [store EXCEPT ![cmd.DeviceID].On = cmd.On]
  ELSE store

\* processCommand and the Set* methods read dm.devices and never write dm.states
StoreAfterCommand(store, cmd) == store

cmdFrame ==
  /\ states' = StoreAfterCommand(states, cmdCurrent)
  /\ UNCHANGED <<now, mainPc, mu, stateQueue, workerVars, busVars, readerVars, countVars,
                 hookLog, harnessVars, commandEvents, enqueued, uiVars, cancelled, hapVars,
                 webVars, statusVars>>

\* case cmd := <-dm.commands
CmdReceive ==
  /\ Running
  /\ cmdPc = "recv"
  /\ commands # <<>>
  /\ cmdCurrent' = Head(commands)
  /\ commands' = Tail(commands)
  /\ cmdPc' = "power"
  /\ UNCHANGED <<mqttLog, errorEvents>>
  /\ cmdFrame

\* if cmd.On != nil { dm.SetPower(ctx, cmd.DeviceID, *cmd.On) }
\* outcomes: whether mqttServer.Publish may fail (TRUE) or succeed (FALSE)
CmdSetPower(outcomes) ==
  /\ cmdPc = "power"
  /\ IF IsNil(cmdCurrent.On)
     THEN /\ cmdPc' = AfterStep(cmdPc, FALSE)
          /\ UNCHANGED <<mqttLog, errorEvents>>
     ELSE \E failed \in outcomes :
            /\ SetPower(cmdCurrent.DeviceID, Deref(cmdCurrent.On), failed)
            /\ cmdPc' = AfterStep(cmdPc, SetErr(cmdCurrent.DeviceID, failed))
  /\ UNCHANGED <<commands, cmdCurrent>>
  /\ cmdFrame

\* if cmd.Brightness != nil { dm.SetBrightness(ctx, cmd.DeviceID, *cmd.Brightness) }
CmdSetBrightness(outcomes) ==
  /\ cmdPc = "brightness"
  /\ IF IsNil(cmdCurrent.Brightness)
     THEN /\ cmdPc' = AfterStep(cmdPc, FALSE)
          /\ UNCHANGED <<mqttLog, errorEvents>>
     ELSE \E failed \in outcomes :
            /\ SetBrightness(cmdCurrent.DeviceID, Deref(cmdCurrent.Brightness), failed)
            /\ cmdPc' = AfterStep(cmdPc, SetErr(cmdCurrent.DeviceID, failed))
  /\ UNCHANGED <<commands, cmdCurrent>>
  /\ cmdFrame

\* if cmd.Hue != nil && cmd.Saturation != nil { dm.SetColor(...) }
CmdSetColor(outcomes) ==
  /\ cmdPc = "color"
  /\ IF IsNil(cmdCurrent.Hue) \/ IsNil(cmdCurrent.Saturation)
     THEN /\ cmdPc' = AfterStep(cmdPc, FALSE)
          /\ UNCHANGED <<mqttLog, errorEvents>>
     ELSE \E failed \in outcomes :
            /\ SetColor(cmdCurrent.DeviceID, Deref(cmdCurrent.Hue),
                        Deref(cmdCurrent.Saturation), failed)
            /\ cmdPc' = AfterStep(cmdPc, SetErr(cmdCurrent.DeviceID, failed))
  /\ UNCHANGED <<commands, cmdCurrent>>
  /\ cmdFrame

\* if cmd.ColorTemp != nil { dm.SetColorTemp(ctx, cmd.DeviceID, *cmd.ColorTemp) }
CmdSetColorTemp(outcomes) ==
  /\ cmdPc = "colortemp"
  /\ IF IsNil(cmdCurrent.ColorTemp)
     THEN /\ cmdPc' = AfterStep(cmdPc, FALSE)
          /\ UNCHANGED <<mqttLog, errorEvents>>
     ELSE \E failed \in outcomes :
            /\ SetColorTemp(cmdCurrent.DeviceID, Deref(cmdCurrent.ColorTemp), failed)
            /\ cmdPc' = AfterStep(cmdPc, SetErr(cmdCurrent.DeviceID, failed))
  /\ UNCHANGED <<commands, cmdCurrent>>
  /\ cmdFrame

\* ------------------------------------------------------------- HAPManager
\* the characteristics createAccessory gives a device of each type
Characteristics(device) ==
  LET has(feature) == feature \in device.Features
      battery == IF has("Battery") THEN {"BatteryLevel", "StatusLowBattery"} ELSE {}
  IN CASE device.Type = "climate_sensor" ->
            (IF has("Temperature") THEN {"CurrentTemperature"} ELSE {})
              \cup (IF has("Humidity") THEN {"CurrentRelativeHumidity"} ELSE {})
              \cup battery
       [] device.Type = "occupancy_sensor" -> {"OccupancyDetected"} \cup battery
       [] device.Type = "contact_sensor" -> {"ContactSensorState"} \cup battery
       [] device.Type = "leak_sensor" -> {"LeakDetected"} \cup battery
       [] device.Type = "smoke_sensor" -> {"SmokeDetected"} \cup battery
       [] device.Type = "lightbulb" ->
            {"On"} \cup (IF has("Brightness") THEN {"Brightness"} ELSE {})
              \cup (IF has("Color") THEN {"Hue", "Saturation"} ELSE {})
              \cup (IF has("ColorTemperature") THEN {"ColorTemperature"} ELSE {})
       [] device.Type \in {"outlet", "switch"} -> {"On"}
       [] device.Type = "fan" ->
            {"On"} \cup (IF has("Speed") THEN {"RotationSpeed"} ELSE {})

DeviceTypes ==
  {"climate_sensor", "occupancy_sensor", "contact_sensor", "leak_sensor", "smoke_sensor",
   "lightbulb", "outlet", "switch", "fan"}

\* createAccessory: nil for a type outside the switch; a characteristic starts unset (Nil)
createAccessory(device) ==
  IF device.Type \in DeviceTypes
  THEN <<[DeviceType |-> device.Type, DeviceID |-> device.ID,
          chars |-> [c \in Characteristics(device) |-> Nil]]>>
  ELSE Nil

\* variant: a device without the flag is skipped as well
SkippedUnlessEnabled(device) == IsNil(device.HomeKit) \/ ~Deref(device.HomeKit)

\* if device.HomeKit != nil && !*device.HomeKit { continue }
Skipped(device) == ~IsNil(device.HomeKit) /\ ~Deref(device.HomeKit)

\* "for _, device := range deviceConfigs" of NewHAPManager, from index i on
RECURSIVE BuildAccessories(_, _)
BuildAccessories(i, hm) ==
  IF i > Len(Devices) THEN hm
  ELSE LET device == Devices[i]
           accInfo == createAccessory(device)
       IN IF Skipped(device) \/ IsNil(accInfo)
          THEN BuildAccessories(i + 1, hm)
          ELSE BuildAccessories(i + 1,
                 [accessories |-> (device.ID :> Deref(accInfo)) @@ hm.accessories,
                  accessoryOrder |-> Append(hm.accessoryOrder, device.ID)])

NoAccessories == [x \in {} |-> 0]

\* NewHAPManager: subscribes to StateUpdate events and creates the accessories
NewHAPManager ==
  /\ Running
  /\ hapPc = "off"
  /\ hapIdx' = Len(delivered)
  /\ LET hm == BuildAccessories(1, [accessories |-> NoAccessories, accessoryOrder |-> <<>>])
     IN /\ accessories' = hm.accessories
        /\ accessoryOrder' = hm.accessoryOrder
  /\ hapPc' = "built"
  /\ UNCHANGED <<now, mainPc, managerVars, busVars, readerVars, countVars, hookLog, harnessVars,
                 commandVars, uiVars, cancelled, hapStats, webVars, statusVars>>

\* HAPManager.GetAccessories: the bridge, then the accessories in accessoryOrder
RECURSIVE AccessoriesIn(_, _)
AccessoriesIn(order, accs) ==
  IF order = <<>> THEN <<>>
  ELSE (IF Head(order) \in DOMAIN accs THEN <<Head(order)>> ELSE <<>>)
         \o AccessoriesIn(Tail(order), accs)

Bridge == "bridge"
GetAccessories == <<Bridge>> \o AccessoriesIn(accessoryOrder, accessories)

\* hapManager.Start(ctx): go hm.ProcessStateChanges(ctx)
HAPStart ==
  /\ hapPc = "built"
  /\ hapPc' = "recv"
  /\ UNCHANGED <<now, mainPc, managerVars, busVars, readerVars, countVars, hookLog, harnessVars,
                 commandVars, uiVars, cancelled, accessories, accessoryOrder, hapIdx,
                 hapStats, webVars, statusVars>>

\* Main: accessories := hapManager.GetAccessories();
\* if len(accessories) == 0 { slog.Error("No accessories to serve"); os.Exit(1) }
ServeCheck ==
  /\ hapPc = "recv"
  /\ serving = "starting"
  /\ serving' = IF Len(GetAccessories) = 0 THEN "fatal" ELSE "serving"
  /\ UNCHANGED <<now, mainPc, managerVars, busVars, readerVars, countVars, hookLog,
                 deviceCfg, call, sideVars, controlVars>>

\* variant: the sense of the flag is inverted
BoolToIntInverted(b) == IF b THEN 0 ELSE 1

\* "val := 0; if flag { val = 1 }"
BoolToInt(b) == IF b THEN 1 ELSE 0

\* the value UpdateState sets on a characteristic, Nil when the event does not carry it
CharacteristicValue(name, event) ==
  CASE name = "CurrentTemperature" -> event.Temperature
    [] name = "CurrentRelativeHumidity" -> event.Humidity
    [] name = "OccupancyDetected" ->
         IF IsNil(event.Occupancy) THEN Nil ELSE Ptr(BoolToInt(Deref(event.Occupancy)))
    [] name = "BatteryLevel" -> event.Battery
    [] name = "StatusLowBattery" ->
         IF IsNil(event.Battery) THEN Nil ELSE Ptr(BoolToInt(Deref(event.Battery) < 20))
    [] name = "ContactSensorState" ->
         IF IsNil(event.Contact) THEN Nil ELSE Ptr(BoolToInt(~Deref(event.Contact)))
    [] name = "LeakDetected" ->
         IF IsNil(event.WaterLeak) THEN Nil ELSE Ptr(BoolToInt(Deref(event.WaterLeak)))
    [] name = "SmokeDetected" ->
         IF IsNil(event.Smoke) THEN Nil ELSE Ptr(BoolToInt(Deref(event.Smoke)))
    [] name = "On" -> event.On
    [] name = "Brightness" -> event.Brightness
    [] name = "Hue" -> event.Hue
    [] name = "Saturation" -> event.Saturation
    [] name = "ColorTemperature" ->
         IF IsNil(event.ColorTemp) THEN Nil ELSE Ptr(ClampColorTemp(Deref(event.ColorTemp)))
    [] name = "RotationSpeed" ->
         IF IsNil(event.FanSpeed) THEN Nil ELSE Ptr(Deref(event.FanSpeed) * FloatUnit)

\* variant: an update for a device without accessory lands on the first accessory
AccessoryForAny(accs, order, deviceID) ==
  IF deviceID \in DOMAIN accs THEN <<deviceID>>
  ELSE IF order # <<>> THEN <<order[1]>> ELSE Nil

\* accInfo, exists := hm.accessories[event.DeviceID]
AccessoryFor(accs, order, deviceID) ==
  IF deviceID \in DOMAIN accs THEN <<deviceID>> ELSE Nil

\* variant: a characteristic whose field the event lacks is reset
UpdateStateResetting(event) ==
  LET target == AccessoryFor(accessories, accessoryOrder, event.DeviceID) IN
  IF IsNil(target)
  THEN UNCHANGED <<accessories, hapStats>>
  ELSE /\ accessories' =
            [accessories EXCEPT ![Deref(target)].chars =
               [c \in DOMAIN @ |-> CharacteristicValue(c, event)]]
       /\ hapStats' = [hapStats EXCEPT !.outgoingUpdates = @ + 1,
                                       !.lastActivity = now \div Second]

\* HAPManager.UpdateState
UpdateState(event) ==
  LET target == AccessoryFor(accessories, accessoryOrder, event.DeviceID) IN
  IF IsNil(target)
  THEN UNCHANGED <<accessories, hapStats>>
  ELSE /\ accessories' =
            [accessories EXCEPT ![Deref(target)].chars =
               [c \in DOMAIN @ |->
                  IF IsNil(CharacteristicValue(c, event)) THEN @[c]
                  ELSE CharacteristicValue(c, event)]]
       /\ hapStats' = [hapStats EXCEPT !.outgoingUpdates = @ + 1,
                                       !.lastActivity = now \div Second]

\* ProcessStateChanges: case event := <-hm.stateSubscriber.Events(): hm.UpdateState(event)
HAPReceive ==
  /\ hapPc = "recv"
  /\ hapIdx < Len(delivered)
  /\ UpdateState(delivered[hapIdx + 1])
  /\ hapIdx' = hapIdx + 1
  /\ UNCHANGED <<now, mainPc, managerVars, busVars, readerVars, countVars, hookLog, harnessVars,
                 commandVars, uiVars, cancelled, accessoryOrder, hapPc, webVars, statusVars>>

\* ------------------------------------------------ accessory callbacks
\* the characteristics that carry an OnValueRemoteUpdate callback
Controllable == {"On", "Brightness", "Hue", "Saturation", "ColorTemperature", "RotationSpeed"}

\* characteristic.Value(): the zero value until a value is set
Value(chars, name) == IF IsNil(chars[name]) THEN 0 ELSE Deref(chars[name])

\* variant: a hue update also carries the power state
CommandOfWithPower(deviceID, chars, name, value) ==
  CASE name = "On" -> CommandEvent(deviceID, Ptr(value), Nil, Nil, Nil, Nil)
    [] name = "Brightness" -> CommandEvent(deviceID, Nil, Ptr(value), Nil, Nil, Nil)
    [] name = "Hue" ->
         CommandEvent(deviceID, Ptr(TRUE), Nil, Ptr(value), Ptr(Value(chars, "Saturation")), Nil)
    [] name = "Saturation" ->
         CommandEvent(deviceID, Nil, Nil, Ptr(Value(chars, "Hue")), Ptr(value), Nil)
    [] name = "ColorTemperature" -> CommandEvent(deviceID, Nil, Nil, Nil, Nil, Ptr(value))
    [] name = "RotationSpeed" ->
         CommandEvent(deviceID, Nil, Ptr(FloatToInt(value)), Nil, Nil, Nil)

\* the CommandEvent a callback sends for a remote update of characteristic name
CommandOf(deviceID, chars, name, value) ==
  CASE name = "On" -> CommandEvent(deviceID, Ptr(value), Nil, Nil, Nil, Nil)
    [] name = "Brightness" -> CommandEvent(deviceID, Nil, Ptr(value), Nil, Nil, Nil)
    [] name = "Hue" ->
         CommandEvent(deviceID, Nil, Nil, Ptr(value), Ptr(Value(chars, "Saturation")), Nil)
    [] name = "Saturation" ->
         CommandEvent(deviceID, Nil, Nil, Ptr(Value(chars, "Hue")), Ptr(value), Nil)
    [] name = "ColorTemperature" -> CommandEvent(deviceID, Nil, Nil, Nil, Nil, Ptr(value))
    [] name = "RotationSpeed" ->
         CommandEvent(deviceID, Nil, Ptr(FloatToInt(value)), Nil, Nil, Nil)

CommandTypeOf(name) ==
  CASE name = "On" -> "set_power"
    [] name \in {"Brightness", "RotationSpeed"} -> "set_brightness"
    [] name \in {"Hue", "Saturation"} -> "set_color"
    [] name = "ColorTemperature" -> "set_color_temp"

\* HAPManager.publishCommand
BusCommandEvent(cmd, cmdType, t) ==
  [Timestamp |-> t, Source |-> "homekit", DeviceID |-> cmd.DeviceID, CommandType |-> cmdType,
   On |-> cmd.On, Brightness |-> cmd.Brightness, Hue |-> cmd.Hue,
   Saturation |-> cmd.Saturation, ColorTemp |-> cmd.ColorTemp]

\* the callback of a characteristic statement by statement
NoCallback == [pc |-> "idle"]

callbackFrame ==
  UNCHANGED <<now, mainPc, managerVars, busVars, readerVars, countVars, hookLog,
              deviceCfg, call, serving, stateMu, publishing, clientChan, webClosed,
              cmdPc, cmdCurrent, mqttLog, errorEvents, uiVars, cancelled,
              accessoryOrder, hapIdx, hapPc, webVars, statusVars>>

\* the value is stored and the callback starts:
\* hm.incomingCommands.Add(1); hm.lastActivity.Store(time.Now().Unix())
CallbackCount(deviceID, name, value, limit) ==
  /\ hapPc \in {"recv", "exited"}
  /\ callback.pc = "idle"
  /\ enqueued < limit
  /\ deviceID \in DOMAIN accessories
  /\ name \in DOMAIN accessories[deviceID].chars \cap Controllable
  /\ LET chars == [accessories[deviceID].chars EXCEPT ![name] = Ptr(value)] IN
       /\ accessories' = [accessories EXCEPT ![deviceID].chars = chars]
       /\ callback' = [pc |-> "send", cmd |-> CommandOf(deviceID, chars, name, value),
                        cmdType |-> CommandTypeOf(name)]
  /\ hapStats' = [hapStats EXCEPT !.incomingCommands = @ + 1, !.lastActivity = now \div Second]
  /\ enqueued' = enqueued + 1
  /\ UNCHANGED <<commands, commandEvents>>
  /\ callbackFrame

\* hm.commands <- devices.CommandEvent{...}
CallbackSend ==
  /\ callback.pc = "send"
  /\ LET sent == ChanSend(commands, callback.cmd) IN
       /\ sent.ready
       /\ commands' = sent.queue
  /\ callback' = [callback EXCEPT !.pc = "publish"]
  /\ UNCHANGED <<accessories, hapStats, enqueued, commandEvents>>
  /\ callbackFrame

\* hm.publishCommand(deviceID, cmdType, ...)
CallbackPublish ==
  /\ callback.pc = "publish"
  /\ commandEvents' = Append(commandEvents, BusCommandEvent(callback.cmd, callback.cmdType, now))
  /\ callback' = NoCallback
  /\ UNCHANGED <<accessories, hapStats, enqueued, commands>>
  /\ callbackFrame

\* a remote update of a characteristic: the value is stored, then the callback runs
RemoteUpdate(deviceID, name, value, limit) ==
  /\ hapPc \in {"recv", "exited"}
  /\ enqueued < limit
  /\ deviceID \in DOMAIN accessories
  /\ name \in DOMAIN accessories[deviceID].chars \cap Controllable
  /\ LET chars == [accessories[deviceID].chars EXCEPT ![name] = Ptr(value)]
         cmd == CommandOf(deviceID, chars, name, value)
         sent == ChanSend(commands, cmd)
     IN /\ sent.ready
        /\ commands' = sent.queue
        /\ accessories' = [accessories EXCEPT ![deviceID].chars = chars]
        /\ commandEvents' = Append(commandEvents, BusCommandEvent(cmd, CommandTypeOf(name), now))
  /\ hapStats' = [hapStats EXCEPT !.incomingCommands = @ + 1, !.lastActivity = now \div Second]
  /\ enqueued' = enqueued + 1
  /\ UNCHANGED <<now, mainPc, managerVars, busVars, readerVars, countVars, hookLog, harnessVars,
                 cmdPc, cmdCurrent, mqttLog, errorEvents, uiVars, cancelled,
                 accessoryOrder, hapIdx, hapPc, webVars, statusVars>>

\* ---------------------------------------------------------------- WebServer
\* clientChan := make(chan events.StateUpdateEvent, 10)
SSEClientCap == 10

ConnectionStatusEvent(component, status, t) ==
  [Timestamp |-> t, Component |-> component, Status |-> status]

\* WebServer.LogEvent: the log keeps the last 100 entries
LogEvent(log, entry) ==
  LET appended == Append(log, entry) IN
  IF Len(appended) > 100 THEN Tail(appended) ELSE appended

\* NewWebServer, LogEvent("Server starting..."), Start(ctx)
WebStart ==
  /\ hapPc \in {"recv", "exited"}
  /\ webPc = "off"
  /\ webIdx' = Len(delivered)
  /\ eventLog' = LogEvent(eventLog, [starting |-> TRUE])
  /\ webPc' = "recv"
  /\ statusPc' = "recv"
  /\ statusQueue' = Append(statusQueue, ConnectionStatusEvent("web", "connecting", now))
  /\ UNCHANGED <<now, mainPc, managerVars, busVars, readerVars, countVars, hookLog, harnessVars,
                 commandVars, webCalls, cancelled, hapVars, currentState,
                 sseClients, sseConn, connectionState, statusCount>>

\* if device.Web != nil && !*device.Web { 404 }
WebHidden(device) == ~IsNil(device.Web) /\ ~Deref(device.Web)

webFrame ==
  UNCHANGED <<now, mainPc, managerVars, busVars, readerVars, countVars, hookLog, harnessVars,
              commands, cmdPc, cmdCurrent, commandEvents, enqueued,
              cancelled, hapVars, webVars, statusVars>>

\* WebServer.HandleToggle for POST /toggle/<deviceID> with form value action
HandleToggle(method, deviceID, action, failed) ==
  /\ webPc # "off"
  /\ webCalls < MaxWebCalls
  /\ CanRLock(mu)
  /\ webCalls' = webCalls + 1
  /\ IF method # "POST" \/ deviceID \notin DOMAIN states \/ WebHidden(DeviceOf(deviceID))
     THEN UNCHANGED <<mqttLog, errorEvents, eventLog>>
     ELSE LET on == (action = "on") IN
          /\ SetPower(deviceID, on, failed)
          /\ eventLog' = IF SetErr(deviceID, failed) THEN eventLog
                         ELSE LogEvent(eventLog, [toggle |-> deviceID, on |-> on])
  /\ webFrame

\* the brightness HandleBrightness passes on: fmt.Sscanf("%d"), then the clamp to 0..100
ClampPercent(brightness) ==
  IF brightness < 0 THEN 0 ELSE IF brightness > 100 THEN 100 ELSE brightness

\* WebServer.HandleBrightness; brightnessStr is Nil when it does not scan as an integer
HandleBrightness(method, deviceID, brightnessStr, failed) ==
  /\ webPc # "off"
  /\ webCalls < MaxWebCalls
  /\ CanRLock(mu)
  /\ webCalls' = webCalls + 1
  /\ IF method # "POST" \/ deviceID \notin DOMAIN states \/ WebHidden(DeviceOf(deviceID))
        \/ IsNil(brightnessStr)
     THEN UNCHANGED <<mqttLog, errorEvents, eventLog>>
     ELSE LET brightness == ClampPercent(Deref(brightnessStr)) IN
          /\ SetBrightness(deviceID, brightness, failed)
          /\ eventLog' = IF SetErr(deviceID, failed) THEN eventLog
                         ELSE LogEvent(eventLog, [brightness |-> deviceID, percent |-> brightness])
  /\ webFrame

\* variant: an event that one client cannot take is given to no client
broadcastSSEAllOrNone(clients, event) ==
  IF \E c \in DOMAIN clients : Len(clients[c]) >= SSEClientCap THEN clients
  ELSE [c \in DOMAIN clients |-> Append(clients[c], event)]

\* broadcastSSE: "select { case client <- event: default: }" for every client
broadcastSSE(clients, event) ==
  [c \in DOMAIN clients |->
     IF Len(clients[c]) < SSEClientCap THEN Append(clients[c], event) ELSE clients[c]]

\* processStateChanges: case event := <-ws.stateSubscriber.Events()
WebReceive ==
  /\ webPc = "recv"
  /\ webIdx < Len(delivered)
  /\ LET event == delivered[webIdx + 1] IN
       /\ currentState' = (event.DeviceID :> event) @@ currentState
       /\ sseClients' = broadcastSSE(sseClients, event)
  /\ webIdx' = webIdx + 1
  /\ UNCHANGED <<now, mainPc, managerVars, busVars, readerVars, countVars, hookLog, harnessVars,
                 commandVars, uiVars, cancelled, hapVars, webPc, sseConn, statusVars>>

\* snapshotState: the cached events sorted by DeviceID (the IDs ascend in IDOrder)
IDOrder == <<"d1", "d2", "d3">>

RECURSIVE SortedEvents(_, _)
SortedEvents(order, cache) ==
  IF order = <<>> THEN <<>>
  ELSE (IF Head(order) \in DOMAIN cache THEN <<cache[Head(order)]>> ELSE <<>>)
         \o SortedEvents(Tail(order), cache)

snapshotState == SortedEvents(IDOrder, currentState)

\* "select { case clientChan <- evt: default: }" for each event in turn
RECURSIVE TrySendAll(_, _)
TrySendAll(chan, evts) ==
  IF evts = <<>> THEN chan
  ELSE TrySendAll(IF Len(chan) < SSEClientCap THEN Append(chan, Head(evts)) ELSE chan,
                  Tail(evts))

sseFrame ==
  UNCHANGED <<now, mainPc, managerVars, busVars, readerVars, countVars, hookLog, harnessVars,
              commandVars, eventLog, cancelled, hapVars, webIdx, webPc, currentState,
              statusVars>>

\* HandleSSE up to the registration: clientChan := make(...); ws.sseClients[clientChan] = struct{}{}
SSEConnectUpTo(client, limit) ==
  /\ webPc # "off"
  /\ webCalls < limit
  /\ client \notin DOMAIN sseConn
  /\ webCalls' = webCalls + 1
  /\ sseClients' = (client :> <<>>) @@ sseClients
  /\ sseConn' = (client :> [pc |-> "replay", sent |-> <<>>]) @@ sseConn
  /\ sseFrame

SSEConnect(client) == SSEConnectUpTo(client, MaxWebCalls)

\* HandleSSE: for _, evt := range ws.snapshotState() { select { case clientChan <- evt: default: } }
SSEReplay(client) ==
  /\ client \in DOMAIN sseConn
  /\ sseConn[client].pc = "replay"
  /\ client \in DOMAIN sseClients
  /\ sseClients' = [sseClients EXCEPT ![client] = TrySendAll(@, snapshotState)]
  /\ sseConn' = [sseConn EXCEPT ![client].pc = "stream"]
  /\ UNCHANGED webCalls
  /\ sseFrame

\* HandleSSE: case evt := <-clientChan: fmt.Fprintf(w, "data: %s\n\n", payload)
SSEWrite(client) ==
  /\ client \in DOMAIN sseConn
  /\ sseConn[client].pc = "stream"
  /\ client \in DOMAIN sseClients
  /\ sseClients[client] # <<>>
  /\ sseConn' = [sseConn EXCEPT ![client].sent = Append(@, Head(sseClients[client]))]
  /\ sseClients' = [sseClients EXCEPT ![client] = Tail(@)]
  /\ UNCHANGED webCalls
  /\ sseFrame


\* Bus.PublishConnectionStatus by a component, once the web server has subscribed
StatusPool(t) ==
  { ConnectionStatusEvent("web", "connected", t),
    ConnectionStatusEvent("hap", "disconnected", t) }

PublishConnectionStatus(event) ==
  /\ webPc # "off"
  /\ statusCount < MaxStatuses
  /\ statusQueue' = Append(statusQueue, event)
  /\ statusCount' = statusCount + 1
  /\ UNCHANGED <<now, mainPc, managerVars, busVars, readerVars, countVars, hookLog, harnessVars,
                 commandVars, uiVars, cancelled, hapVars, webVars, statusPc, connectionState>>

\* processConnectionStatuses: case event := <-ws.statusSubscriber.Events()
StatusReceive ==
  /\ statusPc = "recv"
  /\ statusQueue # <<>>
  /\ connectionState' = (Head(statusQueue).Component :> Head(statusQueue)) @@ connectionState
  /\ statusQueue' = Tail(statusQueue)
  /\ UNCHANGED <<now, mainPc, managerVars, busVars, readerVars, countVars, hookLog, harnessVars,
                 commandVars, uiVars, cancelled, hapVars, webVars, statusPc, statusCount>>

\* ------------------------------------------------------------- cancellation
\* the context of Main is cancelled (signal.NotifyContext)
Cancel ==
  /\ Running
  /\ ~cancelled
  /\ cancelled' = TRUE
  /\ UNCHANGED <<now, mainPc, managerVars, busVars, readerVars, countVars, hookLog, harnessVars,
                 commandVars, uiVars, hapVars, webVars, statusVars>>

\* variant: the loop has no case for the cancellation
DoneNever(ctx) == FALSE

\* "case <-ctx.Done():" is ready once the context is cancelled
Done(ctx) == ctx

\* ProcessCommands: case <-ctx.Done(): return
CmdExit ==
  /\ Running
  /\ cmdPc = "recv"
  /\ Done(cancelled)
  /\ cmdPc' = "exited"
  /\ UNCHANGED <<now, mainPc, managerVars, busVars, readerVars, countVars, hookLog, harnessVars,
                 commands, cmdCurrent, mqttLog, errorEvents, commandEvents, enqueued,
                 uiVars, cancelled, hapVars, webVars, statusVars>>

\* ProcessStateEvents: case <-ctx.Done(): return
SMExit ==
  /\ Running
  /\ smPc = "recv"
  /\ Done(cancelled)
  /\ smPc' = "exited"
  /\ UNCHANGED <<now, mainPc, states, mu, stateQueue, smEvent, smIdx, stateCopy,
                 busVars, readerVars, countVars, hookLog, harnessVars, controlVars>>

\* HAPManager.ProcessStateChanges: case <-ctx.Done(): return
HAPExit ==
  /\ hapPc = "recv"
  /\ Done(cancelled)
  /\ hapPc' = "exited"
  /\ UNCHANGED <<now, mainPc, managerVars, busVars, readerVars, countVars, hookLog, harnessVars,
                 commandVars, uiVars, cancelled, accessories, accessoryOrder, hapIdx,
                 hapStats, webVars, statusVars>>

\* WebServer.processStateChanges: case <-ctx.Done(): return
WebExit ==
  /\ webPc = "recv"
  /\ Done(cancelled)
  /\ webPc' = "exited"
  /\ UNCHANGED <<now, mainPc, managerVars, busVars, readerVars, countVars, hookLog, harnessVars,
                 commandVars, uiVars, cancelled, hapVars, webIdx, currentState, sseClients,
                 sseConn, statusVars>>

\* ------------------------------------------------- closing the push channels
closeFrame ==
  UNCHANGED <<now, mainPc, managerVars, busVars, readerVars, countVars, hookLog,
              deviceCfg, call, serving, stateMu, publishing, callback,
              commandVars, uiVars, cancelled, hapVars, webIdx, webPc, currentState,
              statusVars>>

\* close(clientChan)
CloseChan(ch) == [ch EXCEPT !.closes = @ + 1]

\* delete(ws.sseClients, clientChan)
Unregistered(clients, client) == [c \in DOMAIN clients \ {client} |-> clients[c]]

\* WebServer.Close, deferred by Main and run when Main returns after <-ctx.Done():
\* for client := range ws.sseClients { close(client) }; ws.sseClients = make(map...)
WebClose ==
  /\ webPc # "off"
  /\ Done(cancelled)
  /\ ~webClosed
  /\ webClosed' = TRUE
  /\ clientChan' = [c \in PushClients |->
                      IF c \in DOMAIN sseClients THEN CloseChan(clientChan[c])
                      ELSE clientChan[c]]
  /\ sseClients' = [x \in {} |-> <<>>]
  /\ UNCHANGED sseConn
  /\ closeFrame

\* HandleSSE: case <-r.Context().Done(): return / case <-ws.ctx.Done(): return, and then
\* the deferred cleanup: delete(ws.sseClients, clientChan) under the lock, close(clientChan)
SSEExit(client) ==
  /\ client \in DOMAIN sseConn
  /\ sseConn[client].pc = "stream"
  /\ sseConn' = [sseConn EXCEPT ![client].pc = "done"]
  /\ sseClients' = Unregistered(sseClients, client)
  /\ clientChan' = [clientChan EXCEPT ![client] = CloseChan(@)]
  /\ UNCHANGED webClosed
  /\ closeFrame

\* HandleSSE's replay when WebServer.Close has closed the channel since the registration:
\* the first "case clientChan <- evt" panics (send on closed channel) and the deferred
\* cleanup runs; with nothing to replay the handler goes on to its stream loop
SSEReplayClosed(client) ==
  /\ client \in DOMAIN sseConn
  /\ sseConn[client].pc = "replay"
  /\ client \notin DOMAIN sseClients
  /\ IF snapshotState = <<>>
     THEN /\ sseConn' = [sseConn EXCEPT ![client].pc = "stream"]
          /\ UNCHANGED clientChan
     ELSE /\ sseConn' = [sseConn EXCEPT ![client].pc = "done"]
          /\ clientChan' = [clientChan EXCEPT
                              ![client] = CloseChan([@ EXCEPT !.lateSends = @ + 1])]
  /\ UNCHANGED <<sseClients, webClosed>>
  /\ closeFrame

\* WebServer.processConnectionStatuses: case <-ctx.Done(): return
StatusExit ==
  /\ statusPc = "recv"
  /\ Done(cancelled)
  /\ statusPc' = "exited"
  /\ UNCHANGED <<now, mainPc, managerVars, busVars, readerVars, countVars, hookLog, harnessVars,
                 commandVars, uiVars, cancelled, hapVars, webVars, statusQueue,
                 connectionState, statusCount>>

\* ------------------------------------------------------ devices.LoadConfig
\* variant: the check for a repeated ID is left out
DeviceErrorNoDuplicateCheck(devices, i, seenIDs) ==
  LET device == devices[i] IN
  IF device.ID = "" THEN "no ID"
  ELSE IF device.Name = "" THEN "no name"
  ELSE IF device.Topic = <<>> THEN "no topic"
  ELSE IF device.Type = "" THEN "no type"
  ELSE IF device.Type \notin DeviceTypes THEN "invalid type"
  ELSE ""

\* the error LoadConfig returns for device i of the file, "" when the device passes
DeviceError(devices, i, seenIDs) ==
  LET device == devices[i] IN
  IF device.ID = "" THEN "no ID"
  ELSE IF device.Name = "" THEN "no name"
  ELSE IF device.Topic = <<>> THEN "no topic"
  ELSE IF device.Type = "" THEN "no type"
  ELSE IF device.Type \notin DeviceTypes THEN "invalid type"
  ELSE IF device.ID \in seenIDs THEN "duplicate device id"
  ELSE ""

\* "defaultTrue := true" for a flag the file leaves out
WithDefaults(device) ==
  [device EXCEPT !.HomeKit = IF IsNil(@) THEN Ptr(TRUE) ELSE @,
                 !.Web = IF IsNil(@) THEN Ptr(TRUE) ELSE @]

\* "for i, device := range cfg.Devices" from index i on
RECURSIVE ValidateFrom(_, _, _, _)
ValidateFrom(devices, i, seenIDs, done) ==
  IF i > Len(devices) THEN [cfg |-> Ptr(done), err |-> ""]
  ELSE LET err == DeviceError(devices, i, seenIDs) IN
       IF err # "" THEN [cfg |-> Nil, err |-> err]
       ELSE ValidateFrom(devices, i + 1, seenIDs \cup {devices[i].ID},
                         Append(done, WithDefaults(devices[i])))

\* LoadConfig for a file that parses to the device list
LoadConfig(devices) ==
  IF Len(devices) = 0 THEN [cfg |-> Nil, err |-> "no devices configured"]
  ELSE ValidateFrom(devices, 1, {}, <<>>)

NoConfig == [file |-> <<>>, cfg |-> Nil, err |-> "not loaded"]

\* Main: deviceCfg, err := devices.LoadConfig(path); if err != nil { os.Exit(1) }
LoadConfigStep(file) ==
  /\ deviceCfg = NoConfig
  /\ mainPc = 1
  /\ LET loaded == LoadConfig(file) IN
       /\ deviceCfg' = [file |-> file, cfg |-> loaded.cfg, err |-> loaded.err]
       /\ mainPc' = IF loaded.err # "" THEN 0 ELSE mainPc
  /\ UNCHANGED <<now, managerVars, busVars, readerVars, countVars, hookLog, call, serving, sideVars, controlVars>>

\* ------------------------------------------- direct calls (unit tests)
callFrame ==
  UNCHANGED <<now, mainPc, managerVars, busVars, readerVars, countVars, hookLog,
              deviceCfg, serving, sideVars, controlVars>>

\* what OnPublish returns on every path: "return pk, nil"
Returned(pk) == [packet |-> pk, err |-> Nil]

\* the number of recorded calls of the hook so far
HookCalls == IF call.fn = "OnPublish" THEN call.n ELSE 0

\* MQTTHook.OnPublish called with a packet, the call and its result on record
HookCall(topic, payload, limit) ==
  /\ Running
  /\ HookCalls < limit
  /\ NeedsLookup(topic) => CanRLock(mu)
  /\ \E evs \in HookEvents(topic, payload, now) :
       /\ stateQueue' = Enqueue(stateQueue, evs)
       /\ hookLog' = hookLog \o evs
       /\ emitted' = emitted + Len(evs)
       /\ call' = [fn |-> "OnPublish", n |-> HookCalls + 1,
                    topic |-> topic, payload |-> payload,
                    returned |-> Returned([topic |-> topic, payload |-> payload])]
  /\ UNCHANGED <<controlVars, deviceCfg, serving, sideVars, now, mainPc, states, mu,
                 workerVars, busVars, readerVars, warned, injected>>

\* first among those with the topic (the iteration order of a map is not fixed)
DevicesVisited(devices, topic) ==
  {i \in 1..Len(devices) : devices[i].Topic = topic}

\* Manager.DeviceByTopic on a manager built for the device list
CallDeviceByTopic(devices, topic) ==
  /\ \E i \in DevicesVisited(devices, topic) :
       call' = [fn |-> "DeviceByTopic", devices |-> devices, topic |-> topic,
                found |-> TRUE, device |-> devices[i],
                before |-> IF call.fn = "DeviceByTopic" /\ call.topic = topic
                           THEN <<call.device.ID>> ELSE Nil]
  /\ callFrame

\* a codec function of devices/types.go called with an integer
CallCodec(fn, arg) ==
  /\ call' = [fn |-> fn, arg |-> arg,
               result |-> CASE fn = "Z2MBrightnessToHAP" -> Z2MBrightnessToHAP(arg)
                            [] fn = "HAPBrightnessToZ2M" -> HAPBrightnessToZ2M(arg)
                            [] fn = "ClampColorTemp" -> ClampColorTemp(arg)]
  /\ callFrame

\* TestBrightnessRoundTrip: back := Z2MBrightnessToHAP(HAPBrightnessToZ2M(hap))
CallRoundTrip(hap) ==
  /\ call' = [fn |-> "RoundTrip", arg |-> hap, z2m |-> HAPBrightnessToZ2M(hap),
               result |-> Z2MBrightnessToHAP(HAPBrightnessToZ2M(hap))]
  /\ callFrame

\* ------------------------------------------------------------ specification
Init ==
  /\ now = T0
  /\ mainPc = 1
  /\ states = NoSnap
  /\ mu = [writer |-> FALSE, readers |-> 0]
  /\ stateQueue = <<>>
  /\ smPc = "recv"
  /\ smEvent = NoEvent
  /\ smIdx = 1
  /\ stateCopy = NoState
  /\ lastStates = [x \in {} |-> 0]
  /\ delivered = <<>>
  /\ submitted = <<>>
  /\ emitted = 0
  /\ rdPc = "idle"
  /\ snap = NoSnap
  /\ snapshots = 0
  /\ devRead = [state |-> NoState, found |-> FALSE]
  /\ warned = 0
  /\ injected = 0
  /\ hookLog = <<>>
  /\ deviceCfg = NoConfig
  /\ call = NoCall
  /\ serving = "starting"
  /\ stateMu = FALSE
  /\ publishing = [c \in Publishers |-> NotPublishing]
  /\ callback = NoCallback
  /\ clientChan = [c \in PushClients |-> OpenChan]
  /\ webClosed = FALSE
  /\ commands = <<>>
  /\ cmdPc = "recv"
  /\ cmdCurrent = NoCommand
  /\ mqttLog = <<>>
  /\ errorEvents = <<>>
  /\ commandEvents = <<>>
  /\ enqueued = 0
  /\ webCalls = 0
  /\ eventLog = <<>>
  /\ cancelled = FALSE
  /\ accessories = [x \in {} |-> 0]
  /\ accessoryOrder = <<>>
  /\ hapIdx = 0
  /\ hapPc = "off"
  /\ hapStats = [incomingCommands |-> 0, outgoingUpdates |-> 0, lastActivity |-> 0]
  /\ webIdx = 0
  /\ webPc = "off"
  /\ currentState = [x \in {} |-> 0]
  /\ sseClients = [x \in {} |-> <<>>]
  /\ sseConn = [x \in {} |-> 0]
  /\ statusQueue = <<>>
  /\ statusPc = "off"
  /\ connectionState = [x \in {} |-> 0]
  /\ statusCount = 0

Next ==
  \/ \E t \in Instants : Tick(t)
  \/ NewManagerStep
  \/ \E topic \in Topics, payload \in Payloads : OnPublish(topic, payload)
  \/ SMReceive
  \/ SMMergeField
  \/ SMUnlock
  \/ SMPublish

Spec == Init /\ [][Next]_vars

\* the pipeline driven by a bus client that publishes StateChanged events itself
NextInject ==
  \/ \E t \in Instants : Tick(t)
  \/ NewManagerStep
  \/ \E event \in InjectPool(now) : PublishStateChanged(event)
  \/ SMReceive
  \/ SMMergeField
  \/ SMUnlock
  \/ SMPublish

SpecInject == Init /\ [][NextInject]_vars

\* the pipeline with a concurrent reader of the store
SnapInstants == {T0, T0 + 30 * Second + 400}
SnapTopics == {<<Z2M, "t1">>, <<Z2M, "t2">>}
SnapPayloads ==
  { Obj([temperature |-> Num(F(20, 0))]),
    Obj([state |-> Str("ON"), brightness |-> Num(F(200, 1000))]) }

NextSnap ==
  \/ \E t \in SnapInstants : Tick(t)
  \/ NewManagerStep
  \/ \E topic \in SnapTopics, payload \in SnapPayloads : OnPublish(topic, payload)
  \/ SMReceive
  \/ SMMergeField
  \/ SMUnlock
  \/ SMPublish
  \/ SnapshotBegin
  \/ \E id \in DeviceIDs : SnapshotCopy(id)
  \/ SnapshotEnd
  \/ \E id \in DeviceIDs \cup {UnknownID} : Device(id)

SpecSnap == Init /\ [][NextSnap]_vars

\* the event bus alone, driven by a client that publishes StateUpdate events
TestEvent(id, ts, src, temp, lastSeen, lastUpdated) ==
  [Timestamp |-> ts, Source |-> src, DeviceID |-> id, Name |-> "Test",
   On |-> Ptr(TRUE), Brightness |-> Nil, Hue |-> Nil, Saturation |-> Nil, ColorTemp |-> Nil,
   Temperature |-> temp, Humidity |-> Nil, Battery |-> Nil, Occupancy |-> Nil,
   Illuminance |-> Nil, Pressure |-> Nil, Contact |-> Nil, WaterLeak |-> Nil, Smoke |-> Nil,
   Tamper |-> Nil, FanSpeed |-> Nil, LinkQuality |-> 0,
   LastSeen |-> lastSeen, LastUpdated |-> lastUpdated,
   ConnectionState |-> "connected", ConnectionNote |-> LastSeenAgo(0)]

BusPool ==
  { TestEvent("test-device", T0, "test", Ptr(F(22, 1000)), T0, T0),
    TestEvent("test-device", T0 + 400, "test", Ptr(F(22, 1000)), T0, T0),
    TestEvent("test-device", T0 + 400, "other", Ptr(F(22, 1000)), T0, T0),
    TestEvent("test-device", T0, "test", Ptr(F(22, 1000)), T0 + 400, T0),
    TestEvent("test-device", T0, "test", Ptr(F(22, 1000)), T0, T0 + 400),
    TestEvent("test-device", T0, "test", Ptr(F(22, 1001)), T0, T0),
    TestEvent("test-device", T0, "test", Ptr(F(23, 0)), T0, T0),
    TestEvent("test-device", T0, "test", Nil, T0, T0),
    TestEvent("test2", T0, "test", Ptr(F(22, 1000)), T0, T0) }

BusPublish(event) ==
  /\ injected < MaxBusPublishes
  /\ PublishStateUpdate(event)
  /\ injected' = injected + 1
  /\ UNCHANGED <<controlVars, hookLog, harnessVars, now, mainPc, managerVars, readerVars, emitted, warned>>

NextBus == \E event \in BusPool : BusPublish(event)

SpecBus == Init /\ [][NextBus]_vars

\* the command path: accessory callbacks, other senders, the command worker, the web handlers
RemotePool ==
  { <<"d2", "On", TRUE>>, <<"d2", "Brightness", 0>>, <<"d2", "Brightness", 100>>,
    <<"d2", "Hue", F(120, 0)>>, <<"d2", "ColorTemperature", 300>>,
    <<"d3", "On", TRUE>>, <<"d1", "On", TRUE>> }

CommandPool ==
  { CommandEvent(UnknownID, Ptr(TRUE), Ptr(50), Nil, Nil, Nil),
    CommandEvent("d2", Ptr(TRUE), Ptr(75), Ptr(F(120, 0)), Ptr(F(50, 0)), Ptr(300)),
    CommandEvent("d2", Nil, Ptr(75), Nil, Nil, Nil),
    CommandEvent("d2", Nil, Ptr(-5), Nil, Nil, Nil),
    CommandEvent("d2", Nil, Ptr(150), Nil, Nil, Nil),
    CommandEvent("d2", Nil, Nil, Ptr(F(120, 0)), Nil, Nil),
    CommandEvent("d3", Ptr(FALSE), Nil, Nil, Nil, Nil) }

Methods == {"POST", "GET"}
Actions == {"on", "off"}
BrightnessStrings == {Nil, Ptr(75), Ptr(150)}
WebIDs == {"d1", "d2", UnknownID}

NextCmd ==
  \/ NewManagerStep
  \/ NewHAPManager
  \/ HAPStart
  \/ \E r \in RemotePool : RemoteUpdate(r[1], r[2], r[3], MaxCommands)
  \/ \E cmd \in CommandPool : SendCommand(cmd, MaxCommands)
  \/ CmdReceive
  \/ CmdSetPower(BOOLEAN)
  \/ CmdSetBrightness(BOOLEAN)
  \/ CmdSetColor(BOOLEAN)
  \/ CmdSetColorTemp(BOOLEAN)

SpecCmd == Init /\ [][NextCmd]_vars

\* the web handlers next to the command path
UIRemotePool == {<<"d2", "Brightness", 100>>}

NextUI ==
  \/ NewManagerStep
  \/ NewHAPManager
  \/ HAPStart
  \/ WebStart
  \/ \E r \in UIRemotePool : RemoteUpdate(r[1], r[2], r[3], MaxCommands)
  \/ CmdReceive
  \/ CmdSetPower(BOOLEAN)
  \/ CmdSetBrightness(BOOLEAN)
  \/ CmdSetColor(BOOLEAN)
  \/ CmdSetColorTemp(BOOLEAN)
  \/ \E method \in Methods, id \in WebIDs, action \in Actions,
        failed \in BOOLEAN : HandleToggle(method, id, action, failed)
  \/ \E method \in Methods, id \in WebIDs, b \in BrightnessStrings,
        failed \in BOOLEAN : HandleBrightness(method, id, b, failed)

SpecUI == Init /\ [][NextUI]_vars

\* a burst of remote updates against a command worker whose publishes succeed
NextQueue ==
  \/ NewManagerStep
  \/ NewHAPManager
  \/ HAPStart
  \/ \E b \in {enqueued} : RemoteUpdate("d2", "Brightness", b, MaxBurst)
  \/ CmdReceive
  \/ CmdSetPower({FALSE})
  \/ CmdSetBrightness({FALSE})
  \/ CmdSetColor({FALSE})
  \/ CmdSetColorTemp({FALSE})

SpecQueue == Init /\ [][NextQueue]_vars

\* the pipeline with the accessories attached and a reader of the store
HapTopics == {<<Z2M, "t1">>, <<Z2M, "t3">>}
HapPayloads == {Obj([temperature |-> Num(F(20, 0))]), Obj([state |-> Str("ON")])}
HapRemotePool == {<<"d2", "On", TRUE>>, <<"d3", "On", TRUE>>}

NextHAP ==
  \/ NewManagerStep
  \/ NewHAPManager
  \/ HAPStart
  \/ \E topic \in HapTopics, payload \in HapPayloads : OnPublish(topic, payload)
  \/ SMReceive
  \/ SMMergeField
  \/ SMUnlock
  \/ SMPublish
  \/ HAPReceive
  \/ \E r \in HapRemotePool : RemoteUpdate(r[1], r[2], r[3], MaxCommands)
  \/ SnapshotBegin
  \/ \E id \in DeviceIDs : SnapshotCopy(id)
  \/ SnapshotEnd

SpecHAP == Init /\ [][NextHAP]_vars

\* every worker against the cancellation of Main's context, under load from one
\* source at a time (bus messages, commands or connection statuses; bus messages
\* also once the command worker is gone).  A select picks
\* among its ready cases at random, so a case that is ready again and again is
\* taken (SF on the exits); a handler that has started runs to its end and Main
\* runs on to the start of the web server (WF).
CancelTopics == {<<Z2M, "t3">>}
CancelPayloads == {Obj([state |-> Str("ON")])}
CancelCommands == {CommandEvent("d2", Ptr(TRUE), Ptr(75), Ptr(F(120, 0)), Ptr(F(50, 0)), Ptr(300))}

CommandHandler ==
  \/ CmdSetPower({FALSE})
  \/ CmdSetBrightness({FALSE})
  \/ CmdSetColor({FALSE})
  \/ CmdSetColorTemp({FALSE})

MergeHandler ==
  \/ SMMergeField
  \/ SMUnlock
  \/ SMPublish

\* Main from NewHAPManager to the start of the web server
Startup ==
  \/ NewHAPManager
  \/ HAPStart
  \/ WebStart

NextCancel ==
  \/ NewManagerStep
  \/ Startup
  \/ /\ (enqueued = 0 \/ cmdPc = "exited") /\ statusCount = 0
     /\ \E topic \in CancelTopics, payload \in CancelPayloads : OnPublish(topic, payload)
  \/ /\ emitted = 0 /\ statusCount = 0
     /\ \E cmd \in CancelCommands : SendCommand(cmd, MaxCommands)
  \/ /\ emitted = 0 /\ enqueued = 0
     /\ \E event \in StatusPool(now) : PublishConnectionStatus(event)
  \/ CmdReceive
  \/ CommandHandler
  \/ SMReceive
  \/ MergeHandler
  \/ HAPReceive
  \/ WebReceive
  \/ StatusReceive
  \/ Cancel
  \/ CmdExit
  \/ SMExit
  \/ HAPExit
  \/ WebExit
  \/ StatusExit

SpecCancel ==
  /\ Init
  /\ [][NextCancel]_vars
  /\ WF_vars(Startup)
  /\ WF_vars(CommandHandler)
  /\ WF_vars(MergeHandler)
  /\ SF_vars(CmdExit)
  /\ SF_vars(SMExit)
  /\ SF_vars(HAPExit)
  /\ SF_vars(WebExit)
  /\ SF_vars(StatusExit)

\* the adapter alone, constructed for a device list of its own and fed StateUpdate
\* events by a client of the bus (TestHAPManager_UpdateState_*)
ApplyDevices ==
  << [ID |-> "c1", Name |-> "Door", Topic |-> <<"c1">>, Type |-> "contact_sensor",
      Features |-> {"Battery"}, HomeKit |-> Nil, Web |-> Nil],
     [ID |-> "l1", Name |-> "Lamp", Topic |-> <<"l1">>, Type |-> "lightbulb",
      Features |-> {"ColorTemperature"}, HomeKit |-> Nil, Web |-> Nil] >>

\* "for _, device := range deviceConfigs" of NewHAPManager over the list handed to it
RECURSIVE BuildAccessoriesOf(_, _, _)
BuildAccessoriesOf(deviceConfigs, i, hm) ==
  IF i > Len(deviceConfigs) THEN hm
  ELSE LET device == deviceConfigs[i]
           accInfo == createAccessory(device)
       IN IF Skipped(device) \/ IsNil(accInfo)
          THEN BuildAccessoriesOf(deviceConfigs, i + 1, hm)
          ELSE BuildAccessoriesOf(deviceConfigs, i + 1,
                 [accessories |-> (device.ID :> Deref(accInfo)) @@ hm.accessories,
                  accessoryOrder |-> Append(hm.accessoryOrder, device.ID)])

NewHAPManagerOf(deviceConfigs) ==
  /\ hapPc = "off"
  /\ hapIdx' = Len(delivered)
  /\ LET hm == BuildAccessoriesOf(deviceConfigs, 1,
                 [accessories |-> NoAccessories, accessoryOrder |-> <<>>])
     IN /\ accessories' = hm.accessories
        /\ accessoryOrder' = hm.accessoryOrder
  /\ hapPc' = "built"
  /\ UNCHANGED <<now, mainPc, managerVars, busVars, readerVars, countVars, hookLog, harnessVars,
                 commandVars, uiVars, cancelled, hapStats, webVars, statusVars>>

ApplyEvent(id, field, value) ==
  [TestEvent(id, T0, "test", Nil, T0, T0) EXCEPT ![field] = value]

ApplyPool ==
  { ApplyEvent("c1", "Contact", Ptr(TRUE)),
    ApplyEvent("c1", "Contact", Ptr(FALSE)),
    ApplyEvent("c1", "Battery", Ptr(15)),
    ApplyEvent("c1", "Battery", Ptr(97)),
    ApplyEvent("l1", "ColorTemp", Ptr(100)),
    ApplyEvent("l1", "ColorTemp", Ptr(140)),
    ApplyEvent("l1", "ColorTemp", Ptr(250)),
    ApplyEvent("l1", "ColorTemp", Ptr(500)),
    ApplyEvent("l1", "ColorTemp", Ptr(600)),
    ApplyEvent("c1", "ColorTemp", Ptr(600)),
    ApplyEvent("l1", "Contact", Ptr(TRUE)) }

NextApply ==
  \/ NewHAPManagerOf(ApplyDevices)
  \/ HAPStart
  \/ \E event \in ApplyPool : BusPublish(event)
  \/ HAPReceive

SpecApply == Init /\ [][NextApply]_vars

\* scenario A end to end: the broker may deliver a message as soon as the hook is
\* added, the merge worker runs from then on, and Main goes on to construct and
\* start the adapter.  A worker that can take a step takes it, and Main runs on (WF).
FlowTopics == {<<Z2M, "t1">>}
FlowPayloads ==
  { Obj([temperature |-> Num(F(22, 1000)), humidity |-> Num(F(58, 800)),
         battery |-> Num(F(97, 0))]),
    Obj([temperature |-> Num(F(20, 0))]) }

MergeWorker ==
  \/ SMReceive
  \/ MergeHandler

AdapterStartup ==
  \/ NewHAPManager
  \/ HAPStart

NextFlow ==
  \/ NewManagerStep
  \/ AdapterStartup
  \/ \E topic \in FlowTopics, payload \in FlowPayloads : OnPublish(topic, payload)
  \/ MergeWorker
  \/ HAPReceive

SpecFlow ==
  /\ Init
  /\ [][NextFlow]_vars
  /\ WF_vars(NewManagerStep)
  /\ WF_vars(AdapterStartup)
  /\ WF_vars(MergeWorker)
  /\ WF_vars(HAPReceive)

\* the web server's push channel next to the pipeline
SSETopics == {<<Z2M, "t1">>, <<Z2M, "t2">>}
SSEPayloads == {Obj([temperature |-> Num(F(20, 0))]), Obj([state |-> Str("ON")])}
SSEClients == {"c1"}

NextSSE ==
  \/ NewManagerStep
  \/ NewHAPManager
  \/ HAPStart
  \/ WebStart
  \/ \E topic \in SSETopics, payload \in SSEPayloads : OnPublish(topic, payload)
  \/ SMReceive
  \/ SMMergeField
  \/ SMUnlock
  \/ SMPublish
  \/ WebReceive
  \/ \E client \in SSEClients : SSEConnect(client)
  \/ \E client \in SSEClients : SSEReplay(client)
  \/ \E client \in SSEClients : SSEWrite(client)

SpecSSE == Init /\ [][NextSSE]_vars

\* Main from the load of the device file on: the registry and the pipeline exist
\* only for a file that loads
FileDevice(id, name, type) ==
  [ID |-> id, Name |-> name, Topic |-> <<id>>, Type |-> type,
   Features |-> {}, HomeKit |-> Nil, Web |-> Nil]

ConfigFiles ==
  { Devices,
    <<FileDevice("x", "One", "lightbulb"), FileDevice("x", "Two", "outlet")>>,
    <<FileDevice("a", "One", "lightbulb"), FileDevice("x", "Two", "outlet"),
      FileDevice("x", "Two", "outlet")>>,
    <<FileDevice("x", "One", "lightbulb"), FileDevice("x", "", "outlet")>>,
    <<FileDevice("a", "One", "lightbulb"), FileDevice("b", "Two", "outlet")>>,
    <<FileDevice("a", "", "lightbulb")>>,
    <<FileDevice("a", "One", "thermostat")>>,
    <<>> }

\* deviceManager, err := devices.NewManager(deviceCfg.Devices, ...)
Loaded(devices) == deviceCfg.err = "" /\ deviceCfg.file = devices

NextConfig ==
  \/ \E file \in ConfigFiles : LoadConfigStep(file)
  \/ Loaded(Devices) /\ NewManagerStep
  \/ \E topic \in SSETopics, payload \in SSEPayloads : OnPublish(topic, payload)
  \/ SMReceive
  \/ SMMergeField
  \/ SMUnlock
  \/ SMPublish

SpecConfig == Init /\ [][NextConfig]_vars

\* Main from the construction of the adapter to its accessory check, for device
\* lists as LoadConfig returns them (both flags set)
ServeDevice(id, type, homekit) ==
  [ID |-> id, Name |-> id, Topic |-> <<id>>, Type |-> type, Features |-> {},
   HomeKit |-> Ptr(homekit), Web |-> Ptr(TRUE)]

ServeConfigs ==
  { <<ServeDevice("c1", "contact_sensor", TRUE), ServeDevice("l1", "lightbulb", TRUE)>>,
    <<ServeDevice("c1", "contact_sensor", FALSE), ServeDevice("l1", "lightbulb", TRUE)>>,
    <<ServeDevice("c1", "contact_sensor", FALSE), ServeDevice("l1", "lightbulb", FALSE)>>,
    <<ServeDevice("c1", "contact_sensor", FALSE)>> }

ServePool ==
  { ApplyEvent("c1", "Contact", Ptr(TRUE)),
    ApplyEvent("c1", "Contact", Ptr(FALSE)),
    ApplyEvent("l1", "ColorTemp", Ptr(250)) }

NextServe ==
  \/ \E deviceConfigs \in ServeConfigs : NewHAPManagerOf(deviceConfigs)
  \/ HAPStart
  \/ ServeCheck
  \/ \E event \in ServePool : BusPublish(event)
  \/ HAPReceive

SpecServe == Init /\ [][NextServe]_vars

\* the merge worker and the command worker of the manager side by side
NextLock ==
  \/ NewManagerStep
  \/ \E topic \in CancelTopics, payload \in SSEPayloads : OnPublish(topic, payload)
  \/ \E cmd \in CancelCommands : SendCommand(cmd, MaxCommands)
  \/ CmdReceive
  \/ CommandHandler
  \/ SMReceive
  \/ MergeHandler

SpecLock == Init /\ [][NextLock]_vars

\* callers of the bus publishing side by side
RacePool ==
  { TestEvent("test-device", T0, "test", Ptr(F(22, 1000)), T0, T0),
    TestEvent("test-device", T0 + 400, "other", Ptr(F(22, 1000)), T0, T0),
    TestEvent("test-device", T0, "test", Ptr(F(23, 0)), T0, T0),
    TestEvent("test2", T0, "test", Ptr(F(22, 1000)), T0, T0) }

NextRace ==
  \/ \E c \in Publishers, event \in RacePool : PublishEnter(c, event, MaxBusPublishes)
  \/ \E c \in Publishers : PublishCompare(c)
  \/ \E c \in Publishers : PublishForward(c)
  \/ \E c \in Publishers : PublishRetain(c)

SpecRace == Init /\ [][NextRace]_vars

\* the ingestion hook called with packets of every kind, next to the merge worker
HookTopics ==
  { <<Z2M, "t1">>, <<Z2M, "t2">>, <<Z2M, "nosuch">>, <<Z2M, "bridge", "state">>,
    <<Z2M, "t1", "set">>, <<Z2M, "t2", "get">>, <<"homeassistant", "t1">> }

HookPayloads ==
  { Obj([temperature |-> Num(F(20, 0)), linkquality |-> Num(F(142, 0))]),
    Obj([temperature |-> Str("hot"), humidity |-> Num(F(55, 0))]),
    Obj([state |-> Str("ON"), color |-> Obj([hue |-> Num(F(120, 0))])]),
    Obj([illuminance |-> Num(F(7, 0)), illuminance_lux |-> Num(F(7, 0))]),
    Obj([voltage |-> Num(F(3, 0)), contact |-> JNull]),
    Obj(EmptyObject),
    JNull,
    Num(F(5, 0)),
    Str("online"),
    Invalid }

\* every payload on the topic of d1, and one payload on every topic
HookPackets ==
  ({<<Z2M, "t1">>} \X HookPayloads)
  \cup (HookTopics \X {Obj([temperature |-> Num(F(20, 0)), linkquality |-> Num(F(142, 0))])})

NextHook ==
  \/ NewManagerStep
  \/ \E pk \in HookPackets : HookCall(pk[1], pk[2], MaxHookCalls)
  \/ SMReceive
  \/ MergeHandler

SpecHook == Init /\ [][NextHook]_vars

\* the callbacks of the accessories statement by statement, next to the command worker
NextCallback ==
  \/ NewManagerStep
  \/ NewHAPManager
  \/ HAPStart
  \/ \E r \in RemotePool : CallbackCount(r[1], r[2], r[3], MaxCommands)
  \/ CallbackSend
  \/ CallbackPublish
  \/ CmdReceive
  \/ CommandHandler

SpecCallback == Init /\ [][NextCallback]_vars

\* the store between bus ingestion and the commands of the adapter and of the UI
StoreTopics == {<<Z2M, "t2">>}
StoreRemotePool == {<<"d2", "On", FALSE>>}

NextStore ==
  \/ NewManagerStep
  \/ NewHAPManager
  \/ HAPStart
  \/ WebStart
  \/ \E topic \in StoreTopics, payload \in SSEPayloads : OnPublish(topic, payload)
  \/ SMReceive
  \/ MergeHandler
  \/ \E r \in StoreRemotePool : RemoteUpdate(r[1], r[2], r[3], MaxCommands)
  \/ CmdReceive
  \/ CommandHandler
  \/ \E action \in Actions : HandleToggle("POST", "d2", action, FALSE)
  \/ \E b \in {Ptr(75)} : HandleBrightness("POST", "d2", b, FALSE)

SpecStore == Init /\ [][NextStore]_vars

\* the push handlers next to the shutdown of Main
CloseTopics == {<<Z2M, "t1">>}
ClosePayloads == {Obj([temperature |-> Num(F(20, 0))])}

NextClose ==
  \/ NewManagerStep
  \/ NewHAPManager
  \/ HAPStart
  \/ WebStart
  \/ \E topic \in CloseTopics, payload \in ClosePayloads : OnPublish(topic, payload)
  \/ SMReceive
  \/ MergeHandler
  \/ WebReceive
  \/ \E client \in PushClients : SSEConnectUpTo(client, Cardinality(PushClients))
  \/ \E client \in PushClients : SSEReplay(client)
  \/ \E client \in PushClients : SSEReplayClosed(client)
  \/ \E client \in PushClients : SSEWrite(client)
  \/ \E client \in PushClients : SSEExit(client)
  \/ Cancel
  \/ WebClose
  \/ WebExit

SpecClose == Init /\ [][NextClose]_vars

\* a burst of updates of one device while one push client does not read
BurstEvent(k) == TestEvent("d1", T0, "test", Ptr(F(20 + k, 0)), T0, T0)
SlowClient == "c1"

NextFanout ==
  \/ NewManagerStep
  \/ NewHAPManager
  \/ HAPStart
  \/ WebStart
  \/ /\ injected = 0
     /\ \E client \in PushClients : SSEConnectUpTo(client, Cardinality(PushClients))
  \/ \E client \in PushClients : SSEReplay(client)
  \/ /\ \A client \in PushClients : client \in DOMAIN sseConn /\ sseConn[client].pc = "stream"
     /\ PublishEnter("p1", BurstEvent(injected), MaxBurst)
  \/ PublishCompare("p1")
  \/ PublishForward("p1")
  \/ PublishRetain("p1")
  \/ WebReceive
  \/ \E client \in PushClients \ {SlowClient} : SSEWrite(client)

SpecFanout == Init /\ [][NextFanout]_vars

\* lookups on a manager whose device list has two devices on one routing key
SharedTopicDevices ==
  << FileDevice("a", "One", "lightbulb"),
     [FileDevice("b", "Two", "outlet") EXCEPT !.Topic = <<"a">>],
     [FileDevice("c", "Three", "outlet") EXCEPT !.Topic = <<"a">>],
     FileDevice("d", "Four", "outlet") >>

LookupTopics == {<<"a">>, <<"d">>, <<"nosuch">>}

\* the value codec over ranges that reach past both ends of each scale
BrightnessInputs == -3 .. 260
PercentInputs == -3 .. 104
ColorTempInputs == {-1, 0, 100, 139, 140, 141, 250, 499, 500, 501, 600, 1000}

NextCodec ==
  \/ \E topic \in LookupTopics : CallDeviceByTopic(SharedTopicDevices, topic)
  \/ \E v \in BrightnessInputs : CallCodec("Z2MBrightnessToHAP", v)
  \/ \E p \in PercentInputs : CallCodec("HAPBrightnessToZ2M", p)
  \/ \E v \in ColorTempInputs : CallCodec("ClampColorTemp", v)
  \/ \E p \in PercentInputs : CallRoundTrip(p)

SpecCodec == Init /\ [][NextCodec]_vars

\* ======================================================================
\* Properties
\* ======================================================================
Last(q) == q[Len(q)]

Named(event) == {event.UpdatedFields[i] : i \in 1..Len(event.UpdatedFields)}

\* the telemetry / control dimensions of a Device State
TelemetryFields ==
  {"Temperature", "Humidity", "Battery", "Occupancy", "Illuminance", "Pressure", "Contact",
   "WaterLeak", "Smoke", "Tamper", "On", "Brightness", "Hue", "Saturation", "ColorTemp",
   "FanSpeed", "LinkQuality", "LastSeen", "LastUpdated"}

StoredFields == TelemetryFields \cup {"ID", "Name", "FanDirection", "FanSwing"}

NullableFields == PtrFields \cup {"FanDirection", "FanSwing"}

\* the worker is at the field write of its merge loop
AtFieldWrite == smPc = "merge" /\ smIdx <= Len(smEvent.UpdatedFields)

\* the step that ends a merge (all field writes done, lock released)
MergeCompletes == smPc = "merge" /\ smPc' = "publish"

\* a call of Bus.PublishStateUpdate takes place in this step
Publishes == Len(submitted') = Len(submitted) + 1

Forwarded == delivered' = Append(delivered, Last(submitted'))
Dropped == delivered' = delivered

Retained == Last(submitted').DeviceID \in DOMAIN lastStates
RetainedEvent == lastStates[Last(submitted').DeviceID]

EventFieldNames == DOMAIN TestEvent("", ZeroTime, "", Nil, ZeroTime, ZeroTime)

IdenticalExcept(a, b, ignored) == \A f \in EventFieldNames \ ignored : a[f] = b[f]

EventsbusSubmissions == {i \in 1..Len(submitted) : submitted[i].Source = "eventbus"}

\* ---------------------------------------------------------------------- C1
\* C1: a merge writes a stored field only in the loop iteration whose field name is
\* that field, and then with the candidate state's value; when the merge completes
\* every named telemetry field holds the candidate's value.  Hence exactly the named
\* fields take the candidate's values and every other stored field keeps its value,
\* whatever the candidate carries for it.
SelectiveMergeStep ==
  /\ \A id \in DOMAIN states : \A f \in StoredFields :
       states'[id][f] # states[id][f] =>
         /\ AtFieldWrite
         /\ smEvent.DeviceID = id
         /\ smEvent.UpdatedFields[smIdx] = f
         /\ states'[id][f] = smEvent.State[f]
  /\ MergeCompletes =>
       \A f \in TelemetryFields \cap Named(smEvent) :
         states'[smEvent.DeviceID][f] = smEvent.State[f]

SelectiveMerge == [][SelectiveMergeStep]_vars

\* a merge naming only Humidity has completed: Temperature kept 20.0 although the
\* candidate carried 99.0, Humidity took 55.0
SelectiveMergeWitness ==
  /\ smPc = "publish"
  /\ Named(smEvent) = {"Humidity"}
  /\ smEvent.State.Temperature = Ptr(F(99, 0))
  /\ stateCopy.Temperature = Ptr(F(20, 0))
  /\ stateCopy.Humidity = Ptr(F(55, 0))

\* ---------------------------------------------------------------------- C2
\* C2: a StateUpdate that is identical to the event published just before it except
\* for Timestamp and Source is not delivered; on a fresh bus two such events give
\* exactly one delivery.
DedupIdenticalStep ==
  /\ (Publishes /\ Len(submitted) >= 1
      /\ IdenticalExcept(Last(submitted'), Last(submitted), {"Timestamp", "Source"}))
       => Dropped
  /\ (Len(submitted') = 2
      /\ IdenticalExcept(submitted'[1], submitted'[2], {"Timestamp", "Source"}))
       => Len(delivered') = 1

DedupIdentical == [][DedupIdenticalStep]_vars

DedupIdenticalWitness ==
  /\ Len(submitted) = 2
  /\ submitted[1].Timestamp # submitted[2].Timestamp
  /\ submitted[1].Source # submitted[2].Source
  /\ IdenticalExcept(submitted[1], submitted[2], {"Timestamp", "Source"})
  /\ Len(delivered) = 1

\* ---------------------------------------------------------------------- C3
\* C3 as stated: an event equal to the retained one in every field that is not a
\* timestamp (event timestamp, last-seen, last-updated) is dropped.
DropIgnoringAllTimestamps ==
  [][(Publishes /\ Retained
      /\ IdenticalExcept(Last(submitted'), RetainedEvent,
                         {"Timestamp", "LastSeen", "LastUpdated"}))
       => Dropped]_vars

\* C3 amended: an event equal to the retained one in every field but the event
\* timestamp is dropped, while a different last-seen or last-updated makes it forwarded.
DropIgnoringEventTimestampStep ==
  (Publishes /\ Retained) =>
    /\ IdenticalExcept(Last(submitted'), RetainedEvent, {"Timestamp"}) => Dropped
    /\ (Last(submitted').LastSeen # RetainedEvent.LastSeen
        \/ Last(submitted').LastUpdated # RetainedEvent.LastUpdated) => Forwarded

DropIgnoringEventTimestamp == [][DropIgnoringEventTimestampStep]_vars

\* an event that differs from the retained one in last-seen only has been forwarded
DropIgnoringEventTimestampWitness ==
  /\ Len(delivered) = 2
  /\ delivered[1].LastSeen # delivered[2].LastSeen
  /\ IdenticalExcept(delivered[1], delivered[2], {"LastSeen"})

\* ---------------------------------------------------------------------- C4
ValueFieldNames == EventFieldNames \ {"Timestamp", "Source", "LastSeen", "LastUpdated"}

\* C4 as stated: an event is forwarded when nothing is retained for its device or it
\* differs from the retained event in any value field.
ForwardOnAnyDifference ==
  [][Publishes =>
       ((~Retained \/ \E f \in ValueFieldNames : Last(submitted')[f] # RetainedEvent[f])
          => Forwarded)]_vars

FloatDiffers(a, b) ==
  \/ IsNil(a) # IsNil(b)
  \/ ~IsNil(a) /\ ~IsNil(b) /\ Abs(Deref(a) - Deref(b)) >= eps

ValueDiffers(e, last) ==
  \/ \E f \in ValueFieldNames \ FloatFields : e[f] # last[f]
  \/ \E f \in FloatFields : FloatDiffers(e[f], last[f])

\* C4 amended: an event is forwarded when nothing is retained for its device or it
\* differs from the retained event in a value field, two non-null floats differing
\* only when they are at least 0.001 apart; what is retained for another device
\* plays no part.
ForwardOnValueDifferenceStep ==
  Publishes => ((~Retained \/ ValueDiffers(Last(submitted'), RetainedEvent)) => Forwarded)

ForwardOnValueDifference == [][ForwardOnValueDifferenceStep]_vars

\* forwarded: a first event, a value change for the same device, and the same values
\* for another device
ForwardOnValueDifferenceWitness ==
  /\ Len(delivered) = 3
  /\ delivered[1].DeviceID = delivered[2].DeviceID
  /\ FloatDiffers(delivered[1].Temperature, delivered[2].Temperature)
  /\ delivered[3].DeviceID # delivered[1].DeviceID
  /\ IdenticalExcept(delivered[3], delivered[1], {"DeviceID"})

\* ---------------------------------------------------------------------- C5
\* C5: a new state entry has every nullable field null; a nullable stored field turns
\* non-null only in the merge iteration of an event that names it and carries a
\* non-null value for it, and no step turns a non-null stored field back to null.
NullDisciplineStep ==
  /\ \A id \in DOMAIN states' \ DOMAIN states : \A f \in NullableFields : IsNil(states'[id][f])
  /\ \A id \in DOMAIN states : \A f \in NullableFields :
       /\ ~IsNil(states[id][f]) => ~IsNil(states'[id][f])
       /\ (IsNil(states[id][f]) /\ ~IsNil(states'[id][f])) =>
            /\ AtFieldWrite
            /\ smEvent.DeviceID = id
            /\ smEvent.UpdatedFields[smIdx] = f
            /\ states'[id][f] = smEvent.State[f]

NullDiscipline == [][NullDisciplineStep]_vars

\* Temperature, supplied earlier, is still set after a later merge that names it
\* (message with a non-number temperature is impossible here) or does not name it
NullDisciplineWitness ==
  /\ smPc = "publish"
  /\ "Temperature" \notin Named(smEvent)
  /\ IsNil(smEvent.State.Temperature)
  /\ ~IsNil(stateCopy.Temperature)

\* ---------------------------------------------------------------------- C6
\* C6: taking a StateChanged event of an unregistered device off the subscription
\* changes no stored state, submits and delivers no StateUpdate, and leaves the
\* worker at its receive with the lock free.
UnknownDeviceStep ==
  (stateQueue # <<>> /\ stateQueue' = Tail(stateQueue)
   /\ Head(stateQueue).DeviceID \notin DOMAIN states)
    => /\ states' = states
       /\ submitted' = submitted
       /\ delivered' = delivered
       /\ smPc' = "recv"
       /\ CanLock(mu')

UnknownDeviceDropped == [][UnknownDeviceStep]_vars

\* after such an event was dropped the worker has merged an event of a registered device
UnknownDeviceDroppedWitness ==
  /\ warned >= 1
  /\ smPc = "publish"
  /\ smEvent.DeviceID \in DeviceIDs

\* ---------------------------------------------------------------------- C7
\* C7: every StateChanged event published by the hook is pending, being merged, or has
\* had exactly one "eventbus" StateUpdate submitted; the submission is made by the
\* worker for the event it has just merged and is built from the device's stored
\* state, which is the state the merge left.
SubmissionCount ==
  Cardinality(EventsbusSubmissions) + Len(stateQueue) + (IF smPc = "recv" THEN 0 ELSE 1)
    = emitted

SubmitAfterMergeStep ==
  /\ SubmissionCount'
  /\ (Publishes /\ Running) =>
       /\ smPc = "publish" /\ smPc' = "recv"
       /\ Last(submitted') =
            StateUpdateOf("eventbus", smEvent.DeviceID, states[smEvent.DeviceID], now)
  /\ MergeCompletes => stateCopy' = states'[smEvent.DeviceID]
  /\ (smPc = "publish" /\ smPc' # "publish") => Publishes

SubmitAfterMerge == [][SubmitAfterMergeStep]_vars

\* two merges for one device, submitted in the order of the merges
SubmitAfterMergeWitness ==
  /\ Len(submitted) = Len(Devices) + 2
  /\ submitted[Len(Devices) + 1].DeviceID = "d1"
  /\ submitted[Len(Devices) + 2].DeviceID = "d1"
  /\ ~IsNil(submitted[Len(Devices) + 1].Temperature)
  /\ IsNil(submitted[Len(Devices) + 1].Humidity)
  /\ ~IsNil(submitted[Len(Devices) + 2].Humidity)

\* ---------------------------------------------------------------------- C8
\* C8 as stated: the merge leaves last-updated equal to the time of the merge.
MergeStampsNow ==
  [][MergeCompletes => states'[smEvent.DeviceID].LastUpdated = now]_vars

\* C8 amended: the stored last-updated changes only in the merge iteration of the name
\* LastUpdated and then becomes the candidate state's last-updated; a completed merge
\* that names LastUpdated leaves exactly that value.
LastUpdatedStep ==
  /\ \A id \in DOMAIN states :
       states'[id].LastUpdated # states[id].LastUpdated =>
         /\ AtFieldWrite
         /\ smEvent.DeviceID = id
         /\ smEvent.UpdatedFields[smIdx] = "LastUpdated"
         /\ states'[id].LastUpdated = smEvent.State.LastUpdated
  /\ (MergeCompletes /\ "LastUpdated" \in Named(smEvent)) =>
       states'[smEvent.DeviceID].LastUpdated = smEvent.State.LastUpdated

LastUpdatedFromCandidate == [][LastUpdatedStep]_vars

\* a merge that names LastUpdated completed later than the candidate's timestamp
LastUpdatedFromCandidateWitness ==
  /\ smPc = "publish"
  /\ "LastUpdated" \in Named(smEvent)
  /\ stateCopy.LastUpdated = smEvent.State.LastUpdated
  /\ stateCopy.LastUpdated < now

\* ---------------------------------------------------------------------- C9
\* C9: the first Len(Devices) submissions are the "initial" StateUpdates of the
\* configured devices, one each in configuration order, with every telemetry field
\* null; there is one state entry per initialised device, all null until the
\* manager is constructed; every later submission is bus-driven.
AllNull(r) == \A f \in PtrFields : IsNil(r[f])

InitialStateUpdates ==
  /\ DOMAIN states = {Devices[i].ID : i \in 1..(mainPc - 1)}
  /\ ~Running => \A id \in DOMAIN states :
                    \A f \in NullableFields : IsNil(states[id][f])
  /\ Len(submitted) >= mainPc - 1
  /\ ~Running => Len(submitted) = mainPc - 1
  /\ \A i \in 1..Len(submitted) :
       IF i <= Len(Devices)
       THEN /\ submitted[i].Source = "initial"
            /\ submitted[i].DeviceID = Devices[i].ID
            /\ AllNull(submitted[i])
       ELSE submitted[i].Source = "eventbus"

InitialStateUpdatesWitness ==
  /\ Running
  /\ Len(submitted) > Len(Devices)
  /\ ~AllNull(Last(submitted))

\* --------------------------------------------------------------------- C10
PartiallyMerged(id) ==
  /\ smPc = "merge"
  /\ smEvent.DeviceID = id
  /\ smIdx > 1
  /\ smIdx <= Len(smEvent.UpdatedFields)

\* C10: Snapshot copies a device's state, and Device returns one, only when no merge
\* of that device is part-way through its field writes.
NoTornReadStep ==
  /\ \A id \in DOMAIN snap' \ DOMAIN snap : ~PartiallyMerged(id)
  /\ devRead' # devRead => ~PartiallyMerged(devRead'.state.ID)

NoTornRead == [][NoTornReadStep]_vars

\* a snapshot in progress holds a merged state while another event waits to be merged
NoTornReadWitness ==
  /\ rdPc = "reading"
  /\ "d1" \in DOMAIN snap
  /\ ~IsNil(snap["d1"].Temperature)
  /\ stateQueue # <<>>
  /\ Head(stateQueue).DeviceID = "d1"

\* ----------------------------------------------------------------------
\* helpers of the command path
Quiescent == stateQueue = <<>> /\ smPc # "merge"

MaxOf(S) == CHOOSE x \in S : \A y \in S : y <= x

\* the indices of the events of log for device id that name field
Naming(log, id, field) ==
  {i \in 1..Len(log) : log[i].DeviceID = id /\ field \in Named(log[i])}

CommandSteps == {"power", "brightness", "color", "colortemp"}

\* the worker finishes one of the four blocks of processCommand
CommandStep == cmdPc \in CommandSteps /\ cmdPc' # cmdPc

\* the payload the block at pc handles is set on cmd
PayloadSet(cmd, pc) ==
  CASE pc = "power" -> ~IsNil(cmd.On)
    [] pc = "brightness" -> ~IsNil(cmd.Brightness)
    [] pc = "color" -> ~IsNil(cmd.Hue) /\ ~IsNil(cmd.Saturation)
    [] pc = "colortemp" -> ~IsNil(cmd.ColorTemp)

PayloadKey(pc) ==
  CASE pc = "power" -> "state"
    [] pc = "brightness" -> "brightness"
    [] pc = "color" -> "color"
    [] pc = "colortemp" -> "color_temp"

Following(pc) ==
  CASE pc = "power" -> "brightness"
    [] pc = "brightness" -> "color"
    [] pc = "color" -> "colortemp"
    [] pc = "colortemp" -> "recv"

RoutingTopic(id) == <<Z2M>> \o DeviceOf(id).Topic \o <<"set">>

\* C11: the events the hook emitted are merged in the order of emission: the
\* events still pending are the newest ones, oldest first, and once all are
\* merged every field holds the value of the last event that named it
MergedInEmissionOrder ==
  /\ Len(stateQueue) <= Len(hookLog)
  /\ stateQueue = SubSeq(hookLog, Len(hookLog) - Len(stateQueue) + 1, Len(hookLog))
  /\ Quiescent =>
       \A id \in DOMAIN states, field \in MergeFields :
         LET idx == Naming(hookLog, id, field) IN
         idx # {} => states[id][field] = hookLog[MaxOf(idx)].State[field]

\* two messages for d1 carried different temperatures and both are merged
MergedInEmissionOrderWitness ==
  /\ Len(hookLog) = 2
  /\ hookLog[1].DeviceID = "d1" /\ hookLog[2].DeviceID = "d1"
  /\ "Temperature" \in Named(hookLog[1]) /\ "Temperature" \in Named(hookLog[2])
  /\ hookLog[1].State.Temperature # hookLog[2].State.Temperature
  /\ Quiescent /\ smPc = "recv"
  /\ states["d1"].Temperature = hookLog[2].State.Temperature

\* C12: a brightness command p for a registered device makes one publish to
\* zigbee2mqtt/<routing key>/set with brightness p*254/100 truncated, 0 for
\* p <= 0 and 254 for p >= 100 (75 gives 190)
BrightnessPublishStep ==
  (CommandStep /\ cmdPc = "brightness" /\ ~IsNil(cmdCurrent.Brightness)
     /\ cmdCurrent.DeviceID \in DeviceIDs) =>
    LET p == Deref(cmdCurrent.Brightness)
        expected == IF p <= 0 THEN 0 ELSE IF p >= 100 THEN 254 ELSE (p * 254) \div 100
    IN /\ Len(mqttLog') = Len(mqttLog) + 1
       /\ SubSeq(mqttLog', 1, Len(mqttLog)) = mqttLog
       /\ Last(mqttLog').topic = RoutingTopic(cmdCurrent.DeviceID)
       /\ Last(mqttLog').payload = Obj([brightness |-> Num(expected * FloatUnit)])
       /\ p = 75 => expected = 190

BrightnessPublish == [][BrightnessPublishStep]_vars

\* brightness 75 for the light went out as 190 on zigbee2mqtt/t2/set
BrightnessPublishWitness ==
  \E i \in 1..Len(mqttLog) :
    /\ mqttLog[i].topic = <<Z2M, "t2", "set">>
    /\ mqttLog[i].payload = Obj([brightness |-> Num(190 * FloatUnit)])

\* C13: processCommand makes exactly one publish attempt per payload set, in
\* the order power, brightness, colour, colour temperature; a failure is not
\* retried, the later payloads are still attempted, and the worker returns to
\* the queue
OneAttemptPerPayloadStep ==
  CommandStep =>
    /\ cmdPc' = Following(cmdPc)
    /\ cmdCurrent' = cmdCurrent
    /\ IF PayloadSet(cmdCurrent, cmdPc) /\ cmdCurrent.DeviceID \in DeviceIDs
       THEN /\ Len(mqttLog') = Len(mqttLog) + 1
            /\ SubSeq(mqttLog', 1, Len(mqttLog)) = mqttLog
            /\ Last(mqttLog').topic = RoutingTopic(cmdCurrent.DeviceID)
            /\ DOMAIN Last(mqttLog').payload.obj = {PayloadKey(cmdPc)}
       ELSE mqttLog' = mqttLog

OneAttemptPerPayload == [][OneAttemptPerPayloadStep]_vars

\* the power publish of a command failed, its brightness and colour were still
\* attempted, and the worker is processing the next command
OneAttemptPerPayloadWitness ==
  /\ Len(mqttLog) >= 4
  /\ mqttLog[1].failed
  /\ DOMAIN mqttLog[1].payload.obj = {"state"}
  /\ DOMAIN mqttLog[2].payload.obj = {"brightness"}
  /\ DOMAIN mqttLog[3].payload.obj = {"color"}
  /\ DOMAIN mqttLog[4].payload.obj = {"color_temp"}
  /\ enqueued = 2 /\ commands = <<>> /\ cmdPc = "power"

\* C14: every failed publish of a command is reported by an Error event for
\* the device (the code reports only failed power publishes)
FailedPublishes == {i \in 1..Len(mqttLog) : mqttLog[i].failed}

EveryFailureReported == Cardinality(FailedPublishes) = Len(errorEvents)

\* C15: a command for an unregistered device publishes nothing, changes no
\* stored state and leaves the worker running
UnknownCommandStep ==
  (CommandStep /\ cmdCurrent.DeviceID \notin DeviceIDs) =>
    /\ mqttLog' = mqttLog
    /\ errorEvents' = errorEvents
    /\ states' = states
    /\ cmdPc' = Following(cmdPc)

UnknownCommandIgnored == [][UnknownCommandStep]_vars

\* the worker is past the power block of a command for an unknown device,
\* nothing was published, and another command waits
UnknownCommandIgnoredWitness ==
  /\ cmdCurrent.DeviceID = UnknownID
  /\ ~IsNil(cmdCurrent.On)
  /\ cmdPc = "brightness"
  /\ mqttLog = <<>>
  /\ commands # <<>>

\* C16 as stated: a UI command goes through the command queue, so it is
\* published only when no command enqueued earlier is still pending
UICommandStep == webCalls' # webCalls

UIThroughQueueStep ==
  (UICommandStep /\ mqttLog' # mqttLog) => (commands = <<>> /\ cmdPc = "recv")

UIThroughQueue == [][UIThroughQueueStep]_vars

\* C17: at most 10 commands are pending; a callback enqueues only while fewer
\* than 10 are pending; the commands sent are, in order, the ones processed,
\* the one in process and the ones pending: none is lost, repeated or reordered
Received == enqueued - Len(commands)

CommandOfEvent(e) ==
  CommandEvent(e.DeviceID, e.On, e.Brightness, e.Hue, e.Saturation, e.ColorTemp)

QueueIsFIFOInv ==
  /\ Len(commands) <= 10
  /\ Len(commandEvents) = enqueued
  /\ \A i \in 1..Len(commands) : commands[i] = CommandOfEvent(commandEvents[Received + i])
  /\ Received > 0 => cmdCurrent = CommandOfEvent(commandEvents[Received])
  /\ Len(mqttLog) = IF cmdPc \in {"power", "brightness"} THEN Received - 1 ELSE Received
  /\ \A i \in 1..Len(mqttLog) :
       mqttLog[i].payload = BrightnessPayload(Deref(commandEvents[i].Brightness))

QueueIsFIFO ==
  /\ []QueueIsFIFOInv
  /\ [][enqueued' # enqueued => Len(commands) < 10]_vars

\* the buffer is full after the worker has taken commands out of it: the
\* eleventh remote update got in only then
QueueIsFIFOWitness ==
  /\ Len(commands) = 10
  /\ enqueued = 11
  /\ Len(mqttLog) >= 1


\* C18: once the context is cancelled, each of the five worker loops that is
\* running (commands, state merge, accessory state, UI state, UI status)
\* eventually exits, whatever is still pending on its queue or subscription.
CancelledWorkersExit ==
  cancelled ~> (/\ cmdPc = "exited"
                /\ smPc = "exited"
                /\ hapPc = "exited"
                /\ webPc = "exited"
                /\ statusPc = "exited")

\* all five loops have exited and each has left something unread
CancelledWorkersExitWitness ==
  /\ cancelled
  /\ cmdPc = "exited" /\ commands # <<>>
  /\ smPc = "exited" /\ stateQueue # <<>>
  /\ hapPc = "exited" /\ hapIdx < Len(delivered)
  /\ webPc = "exited" /\ webIdx < Len(delivered)
  /\ statusPc = "exited" /\ statusQueue # <<>>

\* --------------------------------------------------------------------- C19
\* the devices configured with homekit: false
Hidden == {id \in DeviceIDs : DeviceOf(id).HomeKit = Ptr(FALSE)}

HiddenInv ==
  /\ hapPc # "off" =>
       \A id \in Hidden :
         /\ id \notin DOMAIN accessories
         /\ \A i \in 1..Len(GetAccessories) : GetAccessories[i] # id
  /\ \A i \in 1..Len(commands) : commands[i].DeviceID \notin Hidden
  /\ \A i \in 1..Len(commandEvents) : commandEvents[i].DeviceID \notin Hidden
  /\ (snapshots > 0 /\ rdPc = "idle") => Hidden \subseteq DOMAIN snap
  /\ (smPc = "publish" /\ smEvent.DeviceID \in Hidden) =>
       \A i \in 1..Len(smEvent.UpdatedFields) :
         LET field == smEvent.UpdatedFields[i] IN
         field \in MergeFields => states[smEvent.DeviceID][field] = smEvent.State[field]

HiddenStep ==
  (hapIdx' = hapIdx + 1 /\ delivered[hapIdx + 1].DeviceID \in Hidden)
    => accessories' = accessories

\* C19: a device with homekit: false has no accessory and no remote-update
\* callback (no command ever names it), a finished snapshot contains it, a bus
\* message on its routing key is merged into its stored state, and a StateUpdate
\* for it leaves every accessory characteristic as it was.
HiddenDeviceStillStored == []HiddenInv /\ [][HiddenStep]_vars

\* the adapter has just been handed the update of a merged message of the hidden
\* device, and a snapshot holds the merged value
HiddenDeviceStillStoredWitness ==
  /\ hapPc = "recv"
  /\ hapStats.outgoingUpdates > 0
  /\ hapIdx > 0
  /\ delivered[hapIdx].DeviceID \in Hidden
  /\ delivered[hapIdx].Source = "eventbus"
  /\ delivered[hapIdx].On = Ptr(TRUE)
  /\ snapshots > 0 /\ rdPc = "idle"
  /\ \E id \in Hidden : snap[id].On = Ptr(TRUE)

\* --------------------------------------------------------------------- C20
\* the IDs of the configured devices whose homekit flag is not false, in order
RECURSIVE VisibleFrom(_)
VisibleFrom(i) ==
  IF i > Len(Devices) THEN <<>>
  ELSE (IF Devices[i].HomeKit = Ptr(FALSE) THEN <<>> ELSE <<Devices[i].ID>>)
         \o VisibleFrom(i + 1)

\* C20: once the adapter is constructed, the accessory set is the bridge followed
\* by one accessory per configured device whose homekit flag is not false, in
\* configuration order, and there is no accessory for any other device.
AccessorySet ==
  hapPc # "off" =>
    /\ GetAccessories = <<Bridge>> \o VisibleFrom(1)
    /\ DOMAIN accessories = {VisibleFrom(1)[i] : i \in 1..Len(VisibleFrom(1))}

\* the adapter runs with the accessories of the unflagged and the enabled device,
\* and a remote update has come through one of them
AccessorySetWitness ==
  /\ hapPc = "recv"
  /\ GetAccessories = <<Bridge, "d1", "d2">>
  /\ hapStats.incomingCommands > 0

\* --------------------------------------------------------------------- C21
\* the StateUpdate the adapter takes in this step
Applied == delivered[hapIdx + 1]

AppliesStep == hapPc = "recv" /\ hapIdx' = hapIdx + 1

HasCharacteristic(accs, id, name) ==
  id \in DOMAIN accs /\ name \in DOMAIN accs[id].chars

\* C21: when the adapter applies a StateUpdate with a contact value to a contact
\* sensor, contact = true (closed) writes 0 and contact = false (open) writes 1.
ContactInvertedStep ==
  (/\ AppliesStep
   /\ HasCharacteristic(accessories, Applied.DeviceID, "ContactSensorState")
   /\ ~IsNil(Applied.Contact))
  => accessories'[Applied.DeviceID].chars["ContactSensorState"]
       = Ptr(IF Deref(Applied.Contact) THEN 0 ELSE 1)

ContactInverted == [][ContactInvertedStep]_vars

\* the contact sensor went from open (1) to closed (0)
ContactInvertedWitness ==
  /\ HasCharacteristic(accessories, "c1", "ContactSensorState")
  /\ accessories["c1"].chars["ContactSensorState"] = Ptr(0)
  /\ hapIdx > 1
  /\ delivered[hapIdx].Contact = Ptr(TRUE)
  /\ delivered[hapIdx - 1].Contact = Ptr(FALSE)

\* --------------------------------------------------------------------- C22
\* a record carries the values of scenario A
ScenarioA(r) ==
  /\ r.Temperature = Ptr(F(22, 1000))
  /\ r.Humidity = Ptr(F(58, 800))
  /\ r.Battery = Ptr(97)

ScenarioAEmitted ==
  \E i \in 1..Len(hookLog) : hookLog[i].DeviceID = "d1" /\ ScenarioA(hookLog[i].State)

ScenarioADelivered ==
  \E k \in 1..Len(delivered) : delivered[k].DeviceID = "d1" /\ ScenarioA(delivered[k])

\* the characteristics of the flagged features of d1 (temperature, humidity) hold the values
ScenarioAApplied ==
  /\ HasCharacteristic(accessories, "d1", "CurrentTemperature")
  /\ accessories["d1"].chars["CurrentTemperature"] = Ptr(F(22, 1000))
  /\ accessories["d1"].chars["CurrentRelativeHumidity"] = Ptr(F(58, 800))

\* C22: a message with temperature 22.5, humidity 58.4 and battery 97 on the
\* routing key of the visible climate sensor d1 leads to a delivered StateUpdate
\* with those values and to d1's characteristics holding them.
ClimateFlow == ScenarioAEmitted ~> (ScenarioADelivered /\ ScenarioAApplied)

\* --------------------------------------------------------------------- C23
\* what a client has been and will be sent, in order
Stream(client) == sseConn[client].sent \o sseClients[client]

\* C23: once a push subscription stands, what it is sent begins with the current
\* StateUpdate of every device of the snapshot, ahead of any later update.
ReplayOnSubscribe ==
  \A client \in DOMAIN sseConn :
    sseConn[client].pc = "stream" =>
      LET n == Cardinality(DOMAIN states) IN
      /\ Len(Stream(client)) >= n
      /\ \A id \in DOMAIN states :
           \E i \in 1..n : Stream(client)[i].DeviceID = id

\* --------------------------------------------------------------------- C24
SharesID(file) ==
  \E i, j \in 1..Len(file) : i # j /\ file[i].ID = file[j].ID

\* C24: the load of a device file in which two devices share an identifier fails
\* with an error and returns no configuration; Main exits and no device is
\* ever registered.
DuplicateIDRejected ==
  (deviceCfg # NoConfig /\ SharesID(deviceCfg.file)) =>
    /\ deviceCfg.err # ""
    /\ IsNil(deviceCfg.cfg)
    /\ mainPc = 0
    /\ DOMAIN states = {}
    /\ submitted = <<>>

\* two devices with the ID "x" and nothing else wrong: the duplicate is the error
DuplicateIDRejectedWitness ==
  /\ Len(deviceCfg.file) = 2
  /\ deviceCfg.file[1].ID = "x" /\ deviceCfg.file[2].ID = "x"
  /\ deviceCfg.err = "duplicate device id"
  /\ DOMAIN states = {}

\* --------------------------------------------------------------------- C25
FirstMatch(devices, topic) ==
  devices[CHOOSE i \in 1..Len(devices) :
            /\ devices[i].Topic = topic
            /\ \A j \in 1..(i - 1) : devices[j].Topic # topic]

\* C25: a lookup by routing key returns the first device in configuration order
\* that has the key, and so the same device as the lookup before it.
FirstMatchWins ==
  call.fn = "DeviceByTopic" =>
    /\ call.device = FirstMatch(call.devices, call.topic)
    /\ ~IsNil(call.before) => Deref(call.before) = call.device.ID

\* --------------------------------------------------------------------- C26
\* C26: when the adapter was built without a single device accessory (every
\* device has its homekit flag false), Main's accessory check ends in the fatal
\* exit.
AbortsWithoutAccessories ==
  (serving # "starting" /\ accessoryOrder = <<>>) => serving = "fatal"

\* --------------------------------------------------------------------- C27
\* C27: the percent value of a bus brightness v lies in 0..100; it is 0 for
\* v <= 0, 100 for v >= 254, and in between the quotient of v*100 by 254 with the
\* fraction dropped.
BrightnessToPercent ==
  call.fn = "Z2MBrightnessToHAP" =>
    /\ call.result \in 0..100
    /\ call.arg <= 0 => call.result = 0
    /\ call.arg >= 254 => call.result = 100
    /\ (0 < call.arg /\ call.arg < 254) =>
         /\ call.result * 254 <= call.arg * 100
         /\ call.arg * 100 < (call.result + 1) * 254

\* 253 * 100 / 254 = 99.6..., which truncation makes 99
BrightnessToPercentWitness ==
  /\ call.fn = "Z2MBrightnessToHAP"
  /\ call.arg = 253
  /\ call.result = 99

\* --------------------------------------------------------------------- C28
\* C28: a percentage in 0..100 converted to the bus scale and back differs from
\* the original by at most 1.
RoundTripWithinOne ==
  (call.fn = "RoundTrip" /\ call.arg \in 0..100) =>
    /\ call.result - call.arg <= 1
    /\ call.arg - call.result <= 1

\* 1% becomes 2 on the bus, and 2 comes back as 0%: the difference is exactly 1
RoundTripWithinOneWitness ==
  /\ call.fn = "RoundTrip"
  /\ call.arg = 1
  /\ call.z2m = 2
  /\ call.result = 0

\* --------------------------------------------------------------------- C29
\* C29: when the adapter applies a StateUpdate with a colour temperature v to an
\* accessory with that characteristic, the characteristic then holds v for
\* 140 <= v <= 500, 140 for v < 140 and 500 for v > 500, a value in 140..500.
ColorTempClampedStep ==
  (/\ AppliesStep
   /\ HasCharacteristic(accessories, Applied.DeviceID, "ColorTemperature")
   /\ ~IsNil(Applied.ColorTemp))
  => LET v == Deref(Applied.ColorTemp)
         written == accessories'[Applied.DeviceID].chars["ColorTemperature"]
     IN /\ ~IsNil(written)
        /\ Deref(written) \in 140..500
        /\ (140 <= v /\ v <= 500) => Deref(written) = v
        /\ v < 140 => Deref(written) = 140
        /\ v > 500 => Deref(written) = 500

ColorTempClamped == [][ColorTempClampedStep]_vars

\* the lamp was told 100 and then 600 and holds 500
ColorTempClampedWitness ==
  /\ HasCharacteristic(accessories, "l1", "ColorTemperature")
  /\ accessories["l1"].chars["ColorTemperature"] = Ptr(500)
  /\ hapIdx > 1
  /\ delivered[hapIdx].ColorTemp = Ptr(600)
  /\ delivered[hapIdx - 1].ColorTemp = Ptr(100)
  /\ delivered[hapIdx - 1].DeviceID = "l1"

\* --------------------------------------------------------------------- C30
\* C30: a step of the manager that publishes a StateUpdate is taken with the
\* device-state lock free, and a step that publishes on the bus transport is
\* taken while the lock, if held at all, is held by the merge worker inside its
\* merge and not by the publishing worker.
PublishesUnlockedStep ==
  /\ delivered' # delivered => ~mu.writer
  /\ mqttLog' # mqttLog => (mu.writer => smPc = "merge")

PublishesUnlocked == [][PublishesUnlockedStep]_vars

\* the merge worker has unlocked and is about to publish the merged state while
\* the command worker is between two bus-transport publishes
PublishesUnlockedWitness ==
  /\ smPc = "publish"
  /\ ~mu.writer
  /\ cmdPc = "color"
  /\ Len(mqttLog) = 2

\* --------------------------------------------------------------------- C31
\* the events forwarded for a device, in order
RECURSIVE ForwardedFor(_, _)
ForwardedFor(id, k) ==
  IF k = 0 THEN <<>>
  ELSE IF delivered[k].DeviceID = id
       THEN Append(ForwardedFor(id, k - 1), delivered[k])
       ELSE ForwardedFor(id, k - 1)

ForwardedIDs == {delivered[k].DeviceID : k \in 1..Len(delivered)}

\* C31: with callers of PublishStateUpdate running side by side, outside a
\* call's critical section the retained event of every device is the last event
\* forwarded for it, and the events forwarded for a device never contain two
\* value-equal events in a row.
PublishAtomic ==
  /\ ~stateMu =>
        /\ DOMAIN lastStates = ForwardedIDs
        /\ \A id \in ForwardedIDs :
             LET f == ForwardedFor(id, Len(delivered)) IN lastStates[id] = f[Len(f)]
  /\ \A id \in ForwardedIDs :
       LET f == ForwardedFor(id, Len(delivered)) IN
       \A k \in 1..(Len(f) - 1) : ~Equals(f[k + 1], f[k])

\* one caller has forwarded its event and not yet retained it, while the other
\* waits at the lock with a value-equal event
PublishAtomicWitness ==
  /\ publishing["p1"].pc = "retain"
  /\ publishing["p2"].pc = "lock"
  /\ Equals(publishing["p2"].event, publishing["p1"].event)
  /\ publishing["p2"].event # publishing["p1"].event

\* --------------------------------------------------------------------- C32
\* a step of the ingestion hook; call' then describes the call
HookStep == call' # call /\ call'.fn = "OnPublish"

Registered(key) == \E i \in 1..Len(Devices) : Devices[i].Topic = key

\* the topic is outside the device namespace, an administrative topic, a command
\* echo, or its routing key belongs to no registered device
Rejected(topic) ==
  \/ Len(topic) < 2
  \/ topic[1] # "zigbee2mqtt"
  \/ (Len(topic) >= 3 /\ topic[2] = "bridge")
  \/ topic[Len(topic)] \in {"set", "get"}
  \/ ~Registered(Tail(topic))

\* C32: the hook emits no StateChanged event and changes no stored state for a
\* message on a topic outside the device namespace, an administrative topic, a
\* topic ending in set or get, or a routing key of no registered device; it
\* returns the packet as it came, without an error.
RejectedTopicsStep ==
  (HookStep /\ Rejected(call'.topic)) =>
    /\ hookLog' = hookLog
    /\ stateQueue' = stateQueue
    /\ states' = states
    /\ call'.returned.packet = [topic |-> call'.topic, payload |-> call'.payload]
    /\ IsNil(call'.returned.err)

RejectedTopics == [][RejectedTopicsStep]_vars

\* after an accepted message, a message outside the device namespace was passed on
RejectedTopicsWitness ==
  /\ call.fn = "OnPublish"
  /\ call.topic = <<"homeassistant", "t1">>
  /\ "obj" \in DOMAIN call.payload
  /\ Len(hookLog) = 1

\* --------------------------------------------------------------------- C33
\* the recognized keys: the kind of value each expects and the field it names
KeyField ==
  [linkquality |-> <<"num", "LinkQuality">>, temperature |-> <<"num", "Temperature">>,
   humidity |-> <<"num", "Humidity">>, battery |-> <<"num", "Battery">>,
   occupancy |-> <<"bool", "Occupancy">>, illuminance |-> <<"num", "Illuminance">>,
   illuminance_lux |-> <<"num", "Illuminance">>, pressure |-> <<"num", "Pressure">>,
   contact |-> <<"bool", "Contact">>, water_leak |-> <<"bool", "WaterLeak">>,
   smoke |-> <<"bool", "Smoke">>, tamper |-> <<"bool", "Tamper">>,
   state |-> <<"str", "On">>, brightness |-> <<"num", "Brightness">>,
   color_temp |-> <<"num", "ColorTemp">>, fan_state |-> <<"str", "On">>,
   fan_speed |-> <<"num", "FanSpeed">>, fan_mode |-> <<"str", "FanSpeed">>]

ColorField == [hue |-> "Hue", saturation |-> "Saturation"]

\* the keys of an object that are recognized and hold a value of the expected kind
Carried(msg, table, kindOf(_)) ==
  {k \in DOMAIN msg \cap DOMAIN table : kindOf(k) \in DOMAIN msg[k]}

KeyKind(k) == KeyField[k][1]
NumKind(k) == "num"

ExpectedFields(msg) ==
  {KeyField[k][2] : k \in Carried(msg, KeyField, KeyKind)}
  \cup (IF "color" \in DOMAIN msg /\ "obj" \in DOMAIN msg["color"]
        THEN {ColorField[k] : k \in Carried(msg["color"].obj, ColorField, NumKind)}
        ELSE {})
  \cup {"LastSeen", "LastUpdated"}

\* the object a payload decodes to: its members, or none for a JSON null
Members(payload) == IF "obj" \in DOMAIN payload THEN payload.obj ELSE EmptyObject

IsObjectOrNull(payload) == "obj" \in DOMAIN payload \/ "null" \in DOMAIN payload

\* C33: for a message that passes the filters and decodes, the hook emits exactly
\* one StateChanged event, for the device of the routing key, whose field list
\* names the fields of the recognized keys of the payload, LastSeen and
\* LastUpdated, and nothing else; without a recognized key the list names
\* LastSeen and LastUpdated only.
OneEventPerMessageStep ==
  (HookStep /\ ~Rejected(call'.topic) /\ IsObjectOrNull(call'.payload)) =>
    /\ Len(hookLog') = Len(hookLog) + 1
    /\ stateQueue' = Append(stateQueue, hookLog'[Len(hookLog')])
    /\ LET event == hookLog'[Len(hookLog')] IN
         /\ DeviceOf(event.DeviceID).Topic = Tail(call'.topic)
         /\ Named(event) = ExpectedFields(Members(call'.payload))

OneEventPerMessage == [][OneEventPerMessageStep]_vars

\* an empty object on the topic of d1 gave an event naming the two stamps only
OneEventPerMessageWitness ==
  /\ call.fn = "OnPublish"
  /\ call.topic = <<"zigbee2mqtt", "t1">>
  /\ call.payload = Obj(EmptyObject)
  /\ Len(hookLog) = 1
  /\ hookLog[1].DeviceID = "d1"
  /\ hookLog[1].UpdatedFields = <<"LastSeen", "LastUpdated">>

\* --------------------------------------------------------------------- C34
\* C34 as stated: every message on an accepted topic with a registered routing
\* key whose payload is valid JSON produces a StateChanged event.
ValidJSONNeverDroppedStep ==
  (HookStep /\ ~Rejected(call'.topic) /\ "invalid" \notin DOMAIN call'.payload) =>
    Len(hookLog') = Len(hookLog) + 1

ValidJSONNeverDropped == [][ValidJSONNeverDroppedStep]_vars

\* a recognized key of the object holds a value of another kind, and no other key
\* supplies its field
Misshapen(msg) ==
  {k \in DOMAIN msg \cap DOMAIN KeyField :
     /\ KeyField[k][1] \notin DOMAIN msg[k]
     /\ KeyField[k][2] \notin ExpectedFields(msg)}

\* C34 amended: a message on an accepted topic with a registered routing key
\* produces a StateChanged event exactly when its payload is a JSON object or
\* null; a key whose value has an unexpected kind is treated as absent (its field
\* is not named and keeps its empty value); a payload that is not valid JSON, or
\* is valid JSON of another kind (a number, a string), is dropped.
ObjectNeverDroppedStep ==
  (HookStep /\ ~Rejected(call'.topic)) =>
    IF IsObjectOrNull(call'.payload)
    THEN /\ Len(hookLog') = Len(hookLog) + 1
         /\ LET event == hookLog'[Len(hookLog')] IN
              \A k \in Misshapen(Members(call'.payload)) :
                /\ KeyField[k][2] \notin Named(event)
                /\ event.State[KeyField[k][2]] = State("", "", 0, 0)[KeyField[k][2]]
    ELSE hookLog' = hookLog /\ stateQueue' = stateQueue

ObjectNeverDropped == [][ObjectNeverDroppedStep]_vars

\* a text where a number is expected did not cost the message its humidity
ObjectNeverDroppedWitness ==
  /\ call.fn = "OnPublish"
  /\ call.topic = <<"zigbee2mqtt", "t1">>
  /\ call.payload = Obj([temperature |-> Str("hot"), humidity |-> Num(F(55, 0))])
  /\ Len(hookLog) = 1
  /\ hookLog[1].UpdatedFields = <<"Humidity", "LastSeen", "LastUpdated">>
  /\ IsNil(hookLog[1].State.Temperature)

\* --------------------------------------------------------------------- C35
\* the kinds of order a command carries
KindsOf(cmd) ==
  (IF ~IsNil(cmd.On) THEN {"power"} ELSE {})
  \cup (IF ~IsNil(cmd.Brightness) THEN {"brightness"} ELSE {})
  \cup (IF ~IsNil(cmd.Hue) /\ ~IsNil(cmd.Saturation) THEN {"color"} ELSE {})
  \cup (IF IsNil(cmd.Hue) # IsNil(cmd.Saturation) THEN {"half a color"} ELSE {})
  \cup (IF ~IsNil(cmd.ColorTemp) THEN {"color temperature"} ELSE {})

\* the device whose characteristic a step wrote
Written ==
  {id \in DOMAIN accessories : accessories'[id] # accessories[id]}

\* C35: a remote-update callback first adds one to the inbound-command counter,
\* then enqueues one command with the device identifier and exactly one of
\* power, brightness, the hue and saturation pair, colour temperature, and only
\* then emits one Command event; it publishes nothing on the bus transport.
CallbackOrderStep ==
  /\ hapStats'.incomingCommands # hapStats.incomingCommands =>
       /\ callback.pc = "idle" /\ callback'.pc = "send"
       /\ hapStats'.incomingCommands = hapStats.incomingCommands + 1
  /\ (callback.pc = "idle" /\ callback' # callback) =>
       /\ hapStats'.incomingCommands = hapStats.incomingCommands + 1
       /\ commands' = commands /\ commandEvents' = commandEvents
  /\ (callback.pc = "send" /\ callback' # callback) =>
       /\ callback'.pc = "publish"
       /\ commands' = Append(commands, callback.cmd)
       /\ Cardinality(KindsOf(callback.cmd)) = 1
       /\ "half a color" \notin KindsOf(callback.cmd)
       /\ commandEvents' = commandEvents
       /\ hapStats' = hapStats
  /\ (callback.pc = "publish" /\ callback' # callback) =>
       /\ callback'.pc = "idle"
       /\ Len(commandEvents') = Len(commandEvents) + 1
       /\ commandEvents'[Len(commandEvents')].DeviceID = callback.cmd.DeviceID
       /\ commands' = commands
       /\ hapStats' = hapStats
  /\ commandEvents' # commandEvents => callback.pc = "publish"
  /\ (callback'.pc = "send" /\ callback.pc = "idle") =>
       Written \subseteq {callback'.cmd.DeviceID}
  /\ callback' # callback => mqttLog' = mqttLog

CallbackOrder == [][CallbackOrderStep]_vars

\* the second callback has counted and enqueued its hue and saturation pair and
\* not yet emitted its event, while the worker has published the first command
CallbackOrderWitness ==
  /\ callback.pc = "publish"
  /\ KindsOf(callback.cmd) = {"color"}
  /\ hapStats.incomingCommands = 2
  /\ Len(commandEvents) = 1
  /\ Len(mqttLog) = 1

\* --------------------------------------------------------------------- C36
\* the event field each characteristic is set from
CharField ==
  [CurrentTemperature |-> "Temperature", CurrentRelativeHumidity |-> "Humidity",
   OccupancyDetected |-> "Occupancy", BatteryLevel |-> "Battery",
   StatusLowBattery |-> "Battery", ContactSensorState |-> "Contact",
   LeakDetected |-> "WaterLeak", SmokeDetected |-> "Smoke", On |-> "On",
   Brightness |-> "Brightness", Hue |-> "Hue", Saturation |-> "Saturation",
   ColorTemperature |-> "ColorTemp", RotationSpeed |-> "FanSpeed"]

\* C36: applying a StateUpdate sets the characteristics of the event's device
\* accessory whose field in the event is non-null; a characteristic whose field
\* is null, and every characteristic of another accessory, keeps its value, and
\* no accessory gains or loses a characteristic.
AppliesOnlyCarriedStep ==
  AppliesStep =>
    /\ DOMAIN accessories' = DOMAIN accessories
    /\ \A id \in DOMAIN accessories :
         /\ DOMAIN accessories'[id].chars = DOMAIN accessories[id].chars
         /\ \A c \in DOMAIN accessories[id].chars :
              IF id = Applied.DeviceID /\ ~IsNil(Applied[CharField[c]])
              THEN ~IsNil(accessories'[id].chars[c])
              ELSE accessories'[id].chars[c] = accessories[id].chars[c]

AppliesOnlyCarried == [][AppliesOnlyCarriedStep]_vars

\* the sensor's battery update left its contact state and the lamp's colour
\* temperature as the two earlier updates had set them
AppliesOnlyCarriedWitness ==
  /\ hapIdx = 3
  /\ delivered[3].DeviceID = "c1"
  /\ delivered[3].Battery = Ptr(15)
  /\ IsNil(delivered[3].Contact)
  /\ HasCharacteristic(accessories, "c1", "ContactSensorState")
  /\ accessories["c1"].chars["ContactSensorState"] = Ptr(0)
  /\ accessories["c1"].chars["StatusLowBattery"] = Ptr(1)
  /\ accessories["l1"].chars["ColorTemperature"] = Ptr(250)

\* --------------------------------------------------------------------- C37
\* a step of command processing: a callback or a sender enqueues, the command
\* worker receives or handles, or a web handler runs
CommandProcessingStep ==
  \/ commands' # commands
  \/ cmdPc' # cmdPc
  \/ mqttLog' # mqttLog
  \/ webCalls' # webCalls

\* the step merges a field of an event of bus ingestion into the entry of id
MergesInto(id) ==
  /\ smPc = "merge"
  /\ smEvent.DeviceID = id
  /\ \E i \in 1..Len(hookLog) : hookLog[i] = smEvent
  /\ smIdx' = smIdx + 1

\* C37: no step of command processing, from the adapter or from the UI, changes
\* the device-state store, and the stored state of a device changes only in a
\* merge of a StateChanged event that bus ingestion produced for it.
StoreOwnedStep ==
  /\ CommandProcessingStep => states' = states
  /\ \A id \in DOMAIN states :
       (id \in DOMAIN states' /\ states'[id] # states[id]) => MergesInto(id)
  /\ Running => DOMAIN states' = DOMAIN states

StoreOwned == [][StoreOwnedStep]_vars

\* the adapter's command and the UI's command for d2 went out on the bus
\* transport while the store holds only what the device itself reported
StoreOwnedWitness ==
  /\ Len(mqttLog) = 2
  /\ webCalls = 1
  /\ hapStats.incomingCommands = 1
  /\ mqttLog[1].payload # mqttLog[2].payload
  /\ "d2" \in DOMAIN states
  /\ states["d2"].On = Ptr(TRUE)
\* --------------------------------------------------------------------- C38
\* C38: the channel of a push client is closed at most once, whatever the order
\* of WebServer.Close and the exit of the client's handler.
ClosedAtMostOnce ==
  \A c \in PushClients : clientChan[c].closes <= 1

\* --------------------------------------------------------------------- C39
\* C39: no event is sent on the channel of a push client after the channel was
\* closed, whatever the order of WebServer.Close, a broadcast and the replay of
\* a new subscription.
NoSendAfterClose ==
  \A c \in PushClients : clientChan[c].lateSends = 0
\* --------------------------------------------------------------------- C40
\* the UI worker takes the next StateUpdate of its subscription
FanoutStep == webPc = "recv" /\ webIdx' = webIdx + 1

\* C40: the UI worker never waits for a push client: it can take a pending
\* StateUpdate whatever the buffers hold; the update is dropped for a client whose
\* 10-event buffer is full and for that client only, every other client gets it,
\* and the worker's entry for the device is set to it all the same.
NeverBlocksOnClientStep ==
  /\ (webPc = "recv" /\ webIdx < Len(delivered)) => ENABLED WebReceive
  /\ FanoutStep =>
       LET event == delivered[webIdx + 1] IN
       /\ currentState'[event.DeviceID] = event
       /\ DOMAIN sseClients' = DOMAIN sseClients
       /\ \A c \in DOMAIN sseClients :
            sseClients'[c] = IF Len(sseClients[c]) < SSEClientCap
                             THEN Append(sseClients[c], event)
                             ELSE sseClients[c]

NeverBlocksOnClient == [][NeverBlocksOnClientStep]_vars

\* the slow client's buffer is full with the first ten updates, the eleventh was
\* dropped for it, reached the other client and is the worker's entry
NeverBlocksOnClientWitness ==
  /\ PushClients \subseteq DOMAIN sseClients
  /\ Len(sseClients[SlowClient]) = SSEClientCap
  /\ \A i \in 1..SSEClientCap : sseClients[SlowClient][i] # BurstEvent(SSEClientCap)
  /\ \E c \in PushClients \ {SlowClient} :
       \E i \in 1..Len(Stream(c)) : Stream(c)[i] = BurstEvent(SSEClientCap)
  /\ "d1" \in DOMAIN currentState
  /\ currentState["d1"] = BurstEvent(SSEClientCap)
====
